---- MODULE Spec2Model ----
(***************************************************************************)
(* NILE operator console: the stand-mode state machine (stand.rs), the     *)
(* console's frame handler with its operator inputs (gui.rs), the          *)
(* telemetry / command channel pair (serial.rs) and the command sequence   *)
(* engine (sequence.rs).                                                   *)
(*                                                                         *)
(* One GUI frame (GuiApp::update) is one action: it drains the telemetry   *)
(* channel, recomputes the StandState and then handles at most one         *)
(* operator input.  The transport thread (start_field_thread) and the      *)
(* threads spawned by run_sequence_par are separate processes.             *)
(***************************************************************************)
EXTENDS Integers, Sequences, FiniteSets, TLC

(***************************************************************************)
(* Bounds of the model.                                                    *)
(***************************************************************************)
\* Successful transport reads the stand answers in one run.
MaxReads == 2
\* A writer starts a send only while fewer than MaxQueue commands are pending.
MaxQueue == 1
\* Sequence threads (run_sequence_par) alive at the same time.
MaxThreads == 1
\* Commands the command channel accepts while the port is served on its own.
MaxAccepted == 2
MaxOverlap == 2
MaxCommands == 2

(***************************************************************************)
(* Constants of the program.                                               *)
(***************************************************************************)
NILE_VALVE_NP1 == "NP1"
NILE_VALVE_NP2 == "NP2"
NILE_VALVE_NP3 == "NP3"
NILE_VALVE_NP4 == "NP4"
NILE_VALVE_IP1 == "IP1"
NILE_VALVE_IP2 == "IP2"
NILE_VALVE_IP3 == "IP3"

ValveHandle ==
    { NILE_VALVE_NP1, NILE_VALVE_NP2, NILE_VALVE_NP3, NILE_VALVE_NP4,
      NILE_VALVE_IP1, NILE_VALVE_IP2, NILE_VALVE_IP3 }

CHECKED_FIELD_NAMES ==
    { "NP1_OPEN", "NP2_OPEN", "NP3_OPEN", "NP4_OPEN",
      "IP1_OPEN", "IP2_OPEN", "IP3_OPEN" }

\* enum StandMode
CheckOut == "CheckOut"
OxygenFilling == "OxygenFilling"
PressurizationAndFiring == "PressurizationAndFiring"
Safing == "Safing"
StandMode == { CheckOut, OxygenFilling, PressurizationAndFiring, Safing }

\* Option<ValveState>: Some(Open), Some(Closed), None
Open == "Open"
Closed == "Closed"
None == "None"
OptionValveState == { Open, Closed, None }

\* enum SensorValue (the variants telemetry of this model carries)
Boolean(b) == [kind |-> "Boolean", b |-> b]
UnsignedInt(n) == [kind |-> "UnsignedInt", u |-> n]
Float(n) == [kind |-> "Float", f |-> n]

\* struct SensorField
SensorField(name, value) == [name |-> name, value |-> value]

(***************************************************************************)
(* stand.rs                                                                *)
(***************************************************************************)
\* StandState::default() had #[default] been put on the first variant.
StandState_default_first_variant ==
    [ stand_mode |-> CheckOut,
      valve_np1 |-> None, valve_np2 |-> None, valve_np3 |-> None,
      valve_np4 |-> None, valve_ip1 |-> None, valve_ip2 |-> None,
      valve_ip3 |-> None ]

\* StandState::default(): #[default] Safing, every Option None.
StandState_default ==
    [ stand_mode |-> Safing,
      valve_np1 |-> None, valve_np2 |-> None, valve_np3 |-> None,
      valve_np4 |-> None, valve_ip1 |-> None, valve_ip2 |-> None,
      valve_ip3 |-> None ]

\* valve_state whose catch-all arm yields Some(Closed).
valve_state_other_closed(name, fs) ==
    IF name \in DOMAIN fs
    THEN IF fs[name].kind = "Boolean"
         THEN IF fs[name].b THEN Open ELSE Closed
         ELSE Closed
    ELSE None

\* valve_state(name, fields): fields is the snapshot, a map name -> value.
valve_state(name, fs) ==
    IF name \in DOMAIN fs
    THEN IF fs[name].kind = "Boolean"
         THEN IF fs[name].b THEN Open ELSE Closed
         ELSE None
    ELSE None

\* update that rebuilds the whole struct from its default.
update_from_default(state, fs) ==
    [ stand_mode |-> Safing,
      valve_np1 |-> valve_state("NP1_OPEN", fs),
      valve_np2 |-> valve_state("NP2_OPEN", fs),
      valve_np3 |-> valve_state("NP3_OPEN", fs),
      valve_np4 |-> valve_state("NP4_OPEN", fs),
      valve_ip1 |-> valve_state("IP1_OPEN", fs),
      valve_ip2 |-> valve_state("IP2_OPEN", fs),
      valve_ip3 |-> valve_state("IP3_OPEN", fs) ]

\* StandState::update
update(state, fs) ==
    [ state EXCEPT
        !.valve_np1 = valve_state("NP1_OPEN", fs),
        !.valve_np2 = valve_state("NP2_OPEN", fs),
        !.valve_np3 = valve_state("NP3_OPEN", fs),
        !.valve_np4 = valve_state("NP4_OPEN", fs),
        !.valve_ip1 = valve_state("IP1_OPEN", fs),
        !.valve_ip2 = valve_state("IP2_OPEN", fs),
        !.valve_ip3 = valve_state("IP3_OPEN", fs) ]

\* Result<(), ModeTransitionError>
Ok == "Ok"
Err == "Err"

\* The exit check matching on valve_np3 alone.
check_pretransition_ox_filling_np3_only(state) ==
    IF state.valve_np3 = Closed THEN Ok ELSE Err

\* check_pretransition_ox_filling
check_pretransition_ox_filling(state) ==
    IF state.valve_np3 = Closed /\ state.valve_np4 = Closed THEN Ok ELSE Err

\* The entry check with valve_ip3 left out of the pattern.
check_transition_ox_filling_without_ip3(state) ==
    IF /\ state.valve_np1 = Closed
       /\ state.valve_np2 = Closed
       /\ state.valve_np3 = Closed
       /\ state.valve_np4 = Closed
       /\ state.valve_ip1 = Closed
       /\ state.valve_ip2 = Closed
    THEN Ok ELSE Err

\* check_transition_ox_filling
check_transition_ox_filling(state) ==
    IF /\ state.valve_np1 = Closed
       /\ state.valve_np2 = Closed
       /\ state.valve_np3 = Closed
       /\ state.valve_np4 = Closed
       /\ state.valve_ip1 = Closed
       /\ state.valve_ip2 = Closed
       /\ state.valve_ip3 = Closed
    THEN Ok ELSE Err

\* check_transition with the entry check also on PressurizationAndFiring.
check_transition_firing_checked(mode, state) ==
    LET out == IF state.stand_mode = OxygenFilling
               THEN check_pretransition_ox_filling(state)
               ELSE Ok
    IN  IF out = Err THEN Err
        ELSE IF mode \in { OxygenFilling, PressurizationAndFiring }
             THEN check_transition_ox_filling(state)
        ELSE Ok

\* StandMode::check_transition(&self = mode, state): the `?` on the exit check
\* returns its error before the entry check is evaluated.
check_transition(mode, state) ==
    LET out == IF state.stand_mode = OxygenFilling
               THEN check_pretransition_ox_filling(state)
               ELSE Ok
    IN  IF out = Err THEN Err
        ELSE IF mode = OxygenFilling THEN check_transition_ox_filling(state)
        ELSE Ok

\* StandState::transition_mode: the result and the state left behind.
transition_mode(state, mode) ==
    IF check_transition(mode, state) = Ok
    THEN [result |-> Ok, state |-> [state EXCEPT !.stand_mode = mode]]
    ELSE [result |-> Err, state |-> state]

\* Every valve offered in every mode.
manual_control_valves_all(mode) ==
    << NILE_VALVE_NP1, NILE_VALVE_NP2, NILE_VALVE_NP3, NILE_VALVE_NP4,
       NILE_VALVE_IP1, NILE_VALVE_IP2, NILE_VALVE_IP3 >>

\* StandMode::manual_control_valves
manual_control_valves(mode) ==
    CASE mode = CheckOut ->
            << NILE_VALVE_NP1, NILE_VALVE_NP2, NILE_VALVE_NP3, NILE_VALVE_NP4,
               NILE_VALVE_IP1, NILE_VALVE_IP2, NILE_VALVE_IP3 >>
      [] mode = OxygenFilling -> << NILE_VALVE_NP3, NILE_VALVE_NP4 >>
      [] mode = PressurizationAndFiring ->
            << NILE_VALVE_NP2, NILE_VALVE_NP3, NILE_VALVE_IP2, NILE_VALVE_IP3 >>
      [] mode = Safing -> << >>

(***************************************************************************)
(* sequence.rs                                                             *)
(***************************************************************************)
\* enum Command; durations are in milliseconds.
OpenValve(valve_handle) == [op |-> "OpenValve", valve |-> valve_handle, ms |-> 0]
CloseValve(valve_handle) == [op |-> "CloseValve", valve |-> valve_handle, ms |-> 0]
Ignite == [op |-> "Ignite", valve |-> "-", ms |-> 0]
Wait(duration) == [op |-> "Wait", valve |-> "-", ms |-> duration]
Done == [op |-> "Done", valve |-> "-", ms |-> 0]

\* A channel that hands its messages over last in, first out.
send_unordered(chan, rx_alive, msg) ==
    IF rx_alive
    THEN [result |-> Ok, chan |-> << msg >> \o chan]
    ELSE [result |-> Err, chan |-> chan]

\* Sender::send on an mpsc channel: fails iff the Receiver was dropped.
send(chan, rx_alive, msg) ==
    IF rx_alive
    THEN [result |-> Ok, chan |-> Append(chan, msg)]
    ELSE [result |-> Err, chan |-> chan]

\* Command::run with a Done that is sent to the stand as well.
Command_run_done_sent(command, chan, rx_alive) ==
    CASE command.op = "OpenValve" ->
            send(chan, rx_alive, << "\n", "OPEN:", command.valve, "\n" >>)
      [] command.op = "CloseValve" ->
            send(chan, rx_alive, << "\n", "CLOSE:", command.valve, "\n" >>)
      [] command.op = "Ignite" ->
            send(chan, rx_alive, << "\n", "IGNITE", "\n" >>)
      [] command.op = "Wait" -> [result |-> Ok, chan |-> chan]
      [] command.op = "Done" -> send(chan, rx_alive, << "\n", "DONE", "\n" >>)

\* Command::run: the wire text is a sequence of text pieces.
Command_run(command, chan, rx_alive) ==
    CASE command.op = "OpenValve" ->
            send(chan, rx_alive, << "\n", "OPEN:", command.valve, "\n" >>)
      [] command.op = "CloseValve" ->
            send(chan, rx_alive, << "\n", "CLOSE:", command.valve, "\n" >>)
      [] command.op = "Ignite" ->
            send(chan, rx_alive, << "\n", "IGNITE", "\n" >>)
      [] command.op = "Wait" -> [result |-> Ok, chan |-> chan]
      [] command.op = "Done" -> [result |-> Ok, chan |-> chan]

\* CommandSequence::run without the `?`: every command is run, and the result
\* is that of the last one.
RECURSIVE run_unchecked(_, _, _)
run_unchecked(commands, chan, rx_alive) ==
    IF commands = << >>
    THEN [result |-> Ok, chan |-> chan]
    ELSE LET r == Command_run(Head(commands), chan, rx_alive)
         IN  IF Len(commands) = 1 THEN r
             ELSE run_unchecked(Tail(commands), r.chan, rx_alive)

\* CommandSequence::run: `?` returns the first send error.
RECURSIVE run(_, _, _)
run(commands, chan, rx_alive) ==
    IF commands = << >>
    THEN [result |-> Ok, chan |-> chan]
    ELSE LET r == Command_run(Head(commands), chan, rx_alive)
         IN  IF r.result = Err THEN r
             ELSE run(Tail(commands), r.chan, rx_alive)

\* A Wait that returns at once.
sleep_skipped(command) == 0

\* thread::sleep in Command::run: for how long the command holds its thread.
sleep(command) ==
    CASE command.op = "Wait" -> command.ms
      [] command.op = "Done" -> 500
      [] OTHER -> 0

\* A thread that holds a clone of command_tx: the commands it was given, the
\* index of the next one, its result ("None" while it runs), the time before
\* which it sleeps, and for each command it has begun the time it began and
\* whether command_rx was alive then.
Writer(kind, commands) ==
    [ kind |-> kind, commands |-> commands, pc |-> 1, result |-> "None",
      wake |-> 0, started |-> << >>, live |-> << >> ]

\* The loop of CommandSequence::run going on after a failed send.
run_next_unchecked(writer, chan, rx_alive, t) ==
    IF writer.pc > Len(writer.commands)
    THEN [ writer |-> [ writer EXCEPT !.result = Ok ], chan |-> chan ]
    ELSE LET command == writer.commands[writer.pc]
             r == Command_run(command, chan, rx_alive)
         IN  [ writer |-> [ writer EXCEPT !.pc = @ + 1,
                                          !.wake = t + sleep(command),
                                          !.started = Append(@, t),
                                          !.live = Append(@, rx_alive) ],
               chan |-> r.chan ]

\* One turn of the loop of CommandSequence::run in the thread of run_par, at
\* time t: the next command is run and `?` returns its error; past the last
\* command the thread returns Ok(()).
run_next(writer, chan, rx_alive, t) ==
    IF writer.pc > Len(writer.commands)
    THEN [ writer |-> [ writer EXCEPT !.result = Ok ], chan |-> chan ]
    ELSE LET command == writer.commands[writer.pc]
             r == Command_run(command, chan, rx_alive)
         IN  IF r.result = Err
             THEN [ writer |-> [ writer EXCEPT !.result = Err,
                                              !.started = Append(@, t),
                                              !.live = Append(@, rx_alive) ],
                    chan |-> r.chan ]
             ELSE [ writer |-> [ writer EXCEPT !.pc = @ + 1,
                                              !.wake = t + sleep(command),
                                              !.started = Append(@, t),
                                              !.live = Append(@, rx_alive) ],
                    chan |-> r.chan ]

(***************************************************************************)
(* serial.rs                                                               *)
(***************************************************************************)
\* ValveCommand::to_string
ValveCommand_to_string(kind, name) ==
    IF kind = "Open"
    THEN << "\n", "OPEN:", name, "\n" >>
    ELSE << "\n", "CLOSE:", name, "\n" >>

\* enum ValveCommand
ValveCommand(kind, name) == [ kind |-> kind, name |-> name ]

\* FieldReciever::send_command(..).expect(..) of the GUI thread, at time t: the
\* next click's command is sent, and a send error panics the thread.
send_command_next(writer, chan, rx_alive, t) ==
    LET command == writer.commands[writer.pc]
        r == send(chan, rx_alive, ValveCommand_to_string(command.kind, command.name))
    IN  IF r.result = Err
        THEN [ writer |-> [ writer EXCEPT !.result = "panicked",
                                         !.started = Append(@, t),
                                         !.live = Append(@, rx_alive) ],
               chan |-> r.chan ]
        ELSE [ writer |-> [ writer EXCEPT !.pc = @ + 1,
                                         !.started = Append(@, t),
                                         !.live = Append(@, rx_alive) ],
               chan |-> r.chan ]

\* An insert that keeps the value a name already has.
insert_if_absent(fs, name, value) ==
    [n \in DOMAIN fs \cup {name} |-> IF n \in DOMAIN fs THEN fs[n] ELSE value]

\* HashMap::insert
insert(fs, name, value) ==
    [n \in DOMAIN fs \cup {name} |-> IF n = name THEN value ELSE fs[n]]

\* FieldReciever::recieve_fields: try_recv until the channel yields nothing.
RECURSIVE recieve_fields(_, _)
recieve_fields(fs, chan) ==
    IF chan = << >> THEN fs
    ELSE recieve_fields(insert(fs, Head(chan).name, Head(chan).value), Tail(chan))

\* The tail of read_fields: only fields named in CHECKED_FIELD_NAMES are kept.
checked_fields(parsed) ==
    SelectSeq(parsed, LAMBDA field : field.name \in CHECKED_FIELD_NAMES)

\* enum SensorValue, variant SignedInt
SignedInt(n) == [kind |-> "SignedInt", i |-> n]

\* A String or byte buffer is the sequence of its bytes, one-character strings
\* for ASCII; "C3" and "A9" are the two bytes of one non-ASCII character, and
\* "NUL" is the zero byte an unfilled part of the read buffer holds.
LeadByte == "C3"
ContinuationByte == "A9"
NulByte == "NUL"

\* The bytes of the valve field names.
as_bytes(name) ==
    CASE name = "NP1_OPEN" -> << "N", "P", "1", "_", "O", "P", "E", "N" >>
      [] name = "NP2_OPEN" -> << "N", "P", "2", "_", "O", "P", "E", "N" >>
      [] name = "NP3_OPEN" -> << "N", "P", "3", "_", "O", "P", "E", "N" >>
      [] name = "NP4_OPEN" -> << "N", "P", "4", "_", "O", "P", "E", "N" >>
      [] name = "IP1_OPEN" -> << "I", "P", "1", "_", "O", "P", "E", "N" >>
      [] name = "IP2_OPEN" -> << "I", "P", "2", "_", "O", "P", "E", "N" >>
      [] name = "IP3_OPEN" -> << "I", "P", "3", "_", "O", "P", "E", "N" >>

\* Bytes taken for text without validation.
from_utf8_unchecked(bytes) == TRUE

\* String::from_utf8 succeeds iff every lead byte is followed by its
\* continuation byte and no continuation byte stands alone.
from_utf8_ok(bytes) ==
    \A i \in 1..Len(bytes) :
        /\ bytes[i] = LeadByte => (i < Len(bytes) /\ bytes[i + 1] = ContinuationByte)
        /\ bytes[i] = ContinuationByte => (i > 1 /\ bytes[i - 1] = LeadByte)

\* str::split: the pieces between the occurrences of a separator.
RECURSIVE split(_, _)
split(s, sep) ==
    IF \E i \in 1..Len(s) : s[i] = sep
    THEN LET i == CHOOSE j \in 1..Len(s) :
                      s[j] = sep /\ \A k \in 1..(j - 1) : s[k] # sep
         IN  << SubSeq(s, 1, i - 1) >> \o split(SubSeq(s, i + 1, Len(s)), sep)
    ELSE << s >>

\* str::rsplit_once('\n').unwrap_or(("", text)): the text before the last
\* newline and the text after it.
rsplit_once(text) ==
    IF \E i \in 1..Len(text) : text[i] = "\n"
    THEN LET i == CHOOSE j \in 1..Len(text) :
                      text[j] = "\n" /\ \A k \in (j + 1)..Len(text) : text[k] # "\n"
         IN  [ lines |-> SubSeq(text, 1, i - 1),
               remainder |-> SubSeq(text, i + 1, Len(text)) ]
    ELSE [ lines |-> << >>, remainder |-> text ]

\* str::lines: the text is cut after every newline, a final empty piece is not
\* a line, and a line that ended in a newline loses a carriage return before it.
lines(s) ==
    LET pieces == split(s, "\n")
        n == Len(pieces)
        count == IF pieces[n] = << >> THEN n - 1 ELSE n
    IN  [ i \in 1..count |->
            IF i < n /\ pieces[i] # << >> /\ pieces[i][Len(pieces[i])] = "\r"
            THEN SubSeq(pieces[i], 1, Len(pieces[i]) - 1)
            ELSE pieces[i] ]

\* char::is_whitespace, for the bytes a line can hold.
White_Space == { " ", "\t", "\r" }

\* str::trim
RECURSIVE trim(_)
trim(s) ==
    IF s = << >> THEN s
    ELSE IF s[1] \in White_Space THEN trim(Tail(s))
    ELSE IF s[Len(s)] \in White_Space THEN trim(SubSeq(s, 1, Len(s) - 1))
    ELSE s

\* A Boolean literal compared as it was read.
to_lowercase_skipped(s) == s

\* str::to_lowercase, for the letters of the Boolean literals.
to_lowercase(s) ==
    [ i \in 1..Len(s) |->
        CASE s[i] = "T" -> "t" [] s[i] = "R" -> "r" [] s[i] = "U" -> "u"
          [] s[i] = "E" -> "e" [] s[i] = "F" -> "f" [] s[i] = "A" -> "a"
          [] s[i] = "L" -> "l" [] s[i] = "S" -> "s" [] OTHER -> s[i] ]

Digits == { "0", "1", "2", "3", "4", "5", "6", "7", "8", "9" }

digit(c) ==
    CASE c = "0" -> 0 [] c = "1" -> 1 [] c = "2" -> 2 [] c = "3" -> 3 [] c = "4" -> 4
      [] c = "5" -> 5 [] c = "6" -> 6 [] c = "7" -> 7 [] c = "8" -> 8 [] c = "9" -> 9

all_digits(s) == s # << >> /\ \A i \in 1..Len(s) : s[i] \in Digits

RECURSIVE decimal(_)
decimal(s) ==
    IF s = << >> THEN 0
    ELSE 10 * decimal(SubSeq(s, 1, Len(s) - 1)) + digit(s[Len(s)])

\* <u64 as FromStr>: an optional plus sign and at least one digit.
parse_u64(s) ==
    LET body == IF s # << >> /\ s[1] = "+" THEN Tail(s) ELSE s
    IN  IF all_digits(body)
        THEN [ result |-> Ok, value |-> decimal(body) ]
        ELSE [ result |-> Err ]

\* A signed integer parsed as an unsigned one.
parse_i64_unsigned(s) == parse_u64(s)

\* <i64 as FromStr>: an optional sign and at least one digit.
parse_i64(s) ==
    LET signed == s # << >> /\ s[1] \in { "+", "-" }
        body == IF signed THEN Tail(s) ELSE s
    IN  IF all_digits(body)
        THEN [ result |-> Ok,
               value |-> IF signed /\ s[1] = "-" THEN 0 - decimal(body) ELSE decimal(body) ]
        ELSE [ result |-> Err ]

\* <f64 as FromStr> for literals without exponent: an optional sign, then
\* digits with at most one point and at least one digit; the value is kept as
\* its literal without a plus sign.
parse_f64(s) ==
    LET signed == s # << >> /\ s[1] \in { "+", "-" }
        body == IF signed THEN Tail(s) ELSE s
        parts == split(body, ".")
        number == /\ Len(parts) <= 2
                  /\ \A i \in 1..Len(parts) : parts[i] = << >> \/ all_digits(parts[i])
                  /\ \E i \in 1..Len(parts) : parts[i] # << >>
    IN  IF number
        THEN [ result |-> Ok, value |-> IF signed /\ s[1] = "+" THEN body ELSE s ]
        ELSE [ result |-> Err ]

\* enum FieldParseError
ToManyTokens == [ error |-> "ToManyTokens" ]
MissingValue == [ error |-> "MissingValue" ]
MissingType == [ error |-> "MissingType" ]
InvalidType(token) == [ error |-> "InvalidType", token |-> token ]
InvalidValue(token) == [ error |-> "InvalidValue", token |-> token ]

\* Err(e) of a Result<_, FieldParseError>
Fail(e) == [ result |-> Err, error |-> e ]

\* parse_sensor_value
parse_sensor_value(s) ==
    LET tokens == split(s, "=")
    IN  IF Len(tokens) > 2 THEN Fail(ToManyTokens)
        ELSE IF Len(tokens) < 2 THEN Fail(MissingValue)
        ELSE LET type_token == tokens[1]
                 value_token == tokens[2]
             IN  CASE type_token = << "u" >> ->
                        LET v == parse_u64(value_token)
                        IN  IF v.result = Err THEN Fail(InvalidValue(value_token))
                            ELSE [ result |-> Ok, value |-> UnsignedInt(v.value) ]
                   [] type_token = << "i" >> ->
                        LET v == parse_i64(value_token)
                        IN  IF v.result = Err THEN Fail(InvalidValue(value_token))
                            ELSE [ result |-> Ok, value |-> SignedInt(v.value) ]
                   [] type_token = << "f" >> ->
                        LET v == parse_f64(value_token)
                        IN  IF v.result = Err THEN Fail(InvalidValue(value_token))
                            ELSE [ result |-> Ok, value |-> Float(v.value) ]
                   [] type_token = << "b" >> ->
                        IF to_lowercase(value_token) = << "t", "r", "u", "e" >>
                        THEN [ result |-> Ok, value |-> Boolean(TRUE) ]
                        ELSE IF to_lowercase(value_token) = << "f", "a", "l", "s", "e" >>
                        THEN [ result |-> Ok, value |-> Boolean(FALSE) ]
                        ELSE Fail(InvalidValue(value_token))
                   [] OTHER -> Fail(InvalidType(type_token))

\* parse_sensor_field; the name of the field stays a byte sequence.
parse_sensor_field(s) ==
    LET tokens == split(s, ":")
    IN  IF Len(tokens) > 2 THEN Fail(ToManyTokens)
        ELSE IF Len(tokens) < 2 THEN Fail(MissingType)
        ELSE LET name == SelectSeq(trim(tokens[1]), LAMBDA c : c # NulByte)
                 value_token == SelectSeq(trim(tokens[2]), LAMBDA c : c # NulByte)
                 value == parse_sensor_value(value_token)
             IN  IF value.result = Err THEN value
                 ELSE [ result |-> Ok, field |-> SensorField(name, value.value) ]

\* The parsed lines whose name is one of CHECKED_FIELD_NAMES, with that name.
checked_parsed(parsed) ==
    LET kept == SelectSeq(parsed,
                    LAMBDA p : /\ p.result = Ok
                               /\ \E n \in CHECKED_FIELD_NAMES : as_bytes(n) = p.field.name)
    IN  [ i \in 1..Len(kept) |->
            SensorField(CHOOSE n \in CHECKED_FIELD_NAMES : as_bytes(n) = kept[i].field.name,
                        kept[i].field.value) ]

\* read_fields with collect::<Result<Vec<_>, _>>: one line that does not parse
\* leaves the call without fields.
read_fields_all_or_nothing(buf, remainder) ==
    LET filtered_buf == SelectSeq(buf, LAMBDA b : b # NulByte)
        read_text == IF from_utf8_ok(filtered_buf) THEN filtered_buf ELSE << >>
        text == remainder \o read_text
        cut == rsplit_once(text)
        found == lines(cut.lines)
        parsed == [ i \in 1..Len(found) |-> parse_sensor_field(found[i]) ]
    IN  [ result |-> Ok,
          remainder |-> cut.remainder,
          fields |-> IF \E i \in 1..Len(parsed) : parsed[i].result = Err
                     THEN << >> ELSE checked_parsed(parsed) ]

\* read_fields after a read that returned Ok and left buf: the zero bytes go,
\* text that is not UTF-8 is replaced by the empty text, the previous remainder
\* is put in front, and the complete lines that parse and are checked are kept.
read_fields(buf, remainder) ==
    LET filtered_buf == SelectSeq(buf, LAMBDA b : b # NulByte)
        read_text == IF from_utf8_ok(filtered_buf) THEN filtered_buf ELSE << >>
        text == remainder \o read_text
        cut == rsplit_once(text)
        found == lines(cut.lines)
        parsed == [ i \in 1..Len(found) |-> parse_sensor_field(found[i]) ]
    IN  [ result |-> Ok,
          remainder |-> cut.remainder,
          fields |-> checked_parsed(parsed) ]

\* Telemetry the stand can answer to one read, as the lines read_fields parsed.
AllClosedLines ==
    << SensorField("NP1_OPEN", Boolean(FALSE)), SensorField("NP2_OPEN", Boolean(FALSE)),
       SensorField("NP3_OPEN", Boolean(FALSE)), SensorField("NP4_OPEN", Boolean(FALSE)),
       SensorField("IP1_OPEN", Boolean(FALSE)), SensorField("IP2_OPEN", Boolean(FALSE)),
       SensorField("IP3_OPEN", Boolean(FALSE)) >>

\* The seven valve fields, each carrying an unsigned integer instead of a Boolean.
AllUnsignedLines ==
    << SensorField("NP1_OPEN", UnsignedInt(1)), SensorField("NP2_OPEN", UnsignedInt(1)),
       SensorField("NP3_OPEN", UnsignedInt(1)), SensorField("NP4_OPEN", UnsignedInt(1)),
       SensorField("IP1_OPEN", UnsignedInt(1)), SensorField("IP2_OPEN", UnsignedInt(1)),
       SensorField("IP3_OPEN", UnsignedInt(1)) >>

ParsedChunks ==
    { << >>, AllClosedLines, AllUnsignedLines, << SensorField("PT0", Float(3)) >>,
      << SensorField("NP1_OPEN", UnsignedInt(1)) >> }
      \cup { << SensorField(n, Boolean(TRUE)) >> : n \in CHECKED_FIELD_NAMES }

\* The chunks read while sequence threads are modelled as well.
SequenceChunks ==
    { << >>, AllClosedLines, << SensorField("PT0", Float(3)) >>,
      << SensorField("NP3_OPEN", Boolean(TRUE)) >>,
      << SensorField("NP1_OPEN", UnsignedInt(1)) >> }

(***************************************************************************)
(* State                                                                   *)
(***************************************************************************)
VARIABLES
    serial_conn_has_died,   \* GuiApp.serial_conn_has_died
    stand_state,            \* GuiApp.stand_state
    ox_fail_popup,          \* GuiApp.ox_fail_popup
    fields,                 \* FieldReciever.fields, the snapshot
    read_chan,              \* SensorFields in flight from read_tx to read_rx
    command_chan,           \* wire texts in flight from command_tx to command_rx
    gui_panicked,           \* an `expect` of the GUI thread failed
    threads,                \* commands left to each run_sequence_par thread
    sender,                 \* the transport thread: its next call, or "panicked"
    reads,                  \* non-empty reads answered so far
    \* CommandSequence runs on inputs of their own (sequence.rs)
    writers,                \* the threads holding a clone of command_tx
    outbound,               \* every wire text command_tx accepted, in arrival order
    origin,                 \* for each of them: the writer and the time of the send
    outbound_open,          \* command_rx has not been dropped
    now,                    \* the clock, in milliseconds
    \* read_fields on inputs of its own (serial.rs)
    decoder,                \* the bytes to read, where they are cut, what was decoded
    \* parse_sensor_value on inputs of its own (serial.rs)
    codec,                  \* the value token and what it parsed to
    \* the loop of start_field_thread on a port of its own (serial.rs)
    port                    \* the FieldSender: its position, remainder and last write

gui_vars == << serial_conn_has_died, stand_state, ox_fail_popup, fields, gui_panicked >>
console_vars == << serial_conn_has_died, stand_state, ox_fail_popup, fields, read_chan,
                   command_chan, gui_panicked, threads, sender, reads >>
engine_vars == << writers, outbound, origin, outbound_open, now >>
vars == << serial_conn_has_died, stand_state, ox_fail_popup, fields, read_chan,
           command_chan, gui_panicked, threads, sender, reads,
           writers, outbound, origin, outbound_open, now, decoder, codec, port >>

\* The transport thread owns read_tx and command_rx; a panic drops both.
sender_alive == sender # "panicked"

(***************************************************************************)
(* gui.rs                                                                  *)
(***************************************************************************)
\* The GuiApp (with the FieldReciever it owns) as a value.
Self ==
    [ serial_conn_has_died |-> serial_conn_has_died,
      stand_state |-> stand_state,
      ox_fail_popup |-> ox_fail_popup,
      fields |-> fields,
      read_chan |-> read_chan,
      command_chan |-> command_chan,
      gui_panicked |-> gui_panicked,
      spawned |-> << >> ]

\* The drain's outcome as GuiApp::recieve_fields matches on it.  The loop of
\* FieldReciever::recieve_fields ends on the first failing try_recv, be it
\* Empty or Disconnected, and the function returns nothing: whether or not the
\* sending half of the telemetry channel is gone, no Err comes back.
recieve_fields_result(tx_alive) == Ok

\* GuiApp::recieve_fields
GuiApp_recieve_fields(self, tx_alive) ==
    [ self EXCEPT
        !.fields = recieve_fields(self.fields, self.read_chan),
        !.read_chan = << >>,
        !.serial_conn_has_died =
            IF recieve_fields_result(tx_alive) = Err THEN TRUE ELSE @ ]

\* GuiApp::update_stand_state
update_stand_state(self) ==
    [ self EXCEPT !.stand_state = update(self.stand_state, self.fields) ]

\* The sequence set_mode builds for StandMode::Safing.
SafingSequence ==
    << OpenValve(NILE_VALVE_NP3), OpenValve(NILE_VALVE_IP3),
       CloseValve(NILE_VALVE_NP1), CloseValve(NILE_VALVE_NP2),
       CloseValve(NILE_VALVE_NP4), CloseValve(NILE_VALVE_IP1),
       CloseValve(NILE_VALVE_IP2) >>

\* GuiApp::handle_oxygen_filling_failure
handle_oxygen_filling_failure(self) == [ self EXCEPT !.ox_fail_popup = TRUE ]

\* set_mode treating every failed transition as a lost connection.
set_mode_conflated(self, mode, rx_alive) ==
    LET r == run(SafingSequence, self.command_chan, rx_alive)
        s1 == IF mode = Safing
              THEN [ self EXCEPT
                       !.command_chan = r.chan,
                       !.serial_conn_has_died = IF r.result = Err THEN TRUE ELSE @ ]
              ELSE self
        t == transition_mode(s1.stand_state, mode)
        s2 == [ s1 EXCEPT !.stand_state = t.state ]
    IN  IF t.result = Err
        THEN [ handle_oxygen_filling_failure(s2) EXCEPT !.serial_conn_has_died = TRUE ]
        ELSE s2

\* GuiApp::set_mode
set_mode(self, mode, rx_alive) ==
    LET r == run(SafingSequence, self.command_chan, rx_alive)
        s1 == IF mode = Safing
              THEN [ self EXCEPT
                       !.command_chan = r.chan,
                       !.serial_conn_has_died = IF r.result = Err THEN TRUE ELSE @ ]
              ELSE self
        t == transition_mode(s1.stand_state, mode)
        s2 == [ s1 EXCEPT !.stand_state = t.state ]
    IN  IF t.result = Err
        THEN IF s2.stand_state.stand_mode = OxygenFilling \/ mode = OxygenFilling
             THEN handle_oxygen_filling_failure(s2)
             ELSE s2
        ELSE s2

\* A Depressurize sequence that opens IP2 as it closes NP4.
DepressurizeSequence_no_gap ==
    << OpenValve(NILE_VALVE_NP3), OpenValve(NILE_VALVE_IP3), Wait(1000),
       OpenValve(NILE_VALVE_NP4), Wait(5000), CloseValve(NILE_VALVE_NP4),
       OpenValve(NILE_VALVE_IP2), Wait(5000), CloseValve(NILE_VALVE_IP2), Wait(1000),
       OpenValve(NILE_VALVE_NP2), Wait(5000), CloseValve(NILE_VALVE_NP2), Wait(1000),
       Done >>

\* The sequence of the "Depressurize System" button.
DepressurizeSequence ==
    << OpenValve(NILE_VALVE_NP3), OpenValve(NILE_VALVE_IP3), Wait(1000),
       OpenValve(NILE_VALVE_NP4), Wait(5000), CloseValve(NILE_VALVE_NP4), Wait(1000),
       OpenValve(NILE_VALVE_IP2), Wait(5000), CloseValve(NILE_VALVE_IP2), Wait(1000),
       OpenValve(NILE_VALVE_NP2), Wait(5000), CloseValve(NILE_VALVE_NP2), Wait(1000),
       Done >>

\* The sequence of the "Fire" button; offset and fire_time in milliseconds.
abs(x) == IF x < 0 THEN -x ELSE x

\* A Fire sequence that opens NP1 first whatever the sign of the offset.
FireSequence_np1_first(valve_np1_ip1_offset, fire_time) ==
    << Ignite, Wait(1000),
       OpenValve(NILE_VALVE_NP1), Wait(abs(valve_np1_ip1_offset)),
       OpenValve(NILE_VALVE_IP1),
       Wait(fire_time), Wait(3000),
       CloseValve(NILE_VALVE_NP2), CloseValve(NILE_VALVE_IP2),
       OpenValve(NILE_VALVE_NP3), OpenValve(NILE_VALVE_IP3), Wait(2000),
       CloseValve(NILE_VALVE_NP1), CloseValve(NILE_VALVE_IP1), Done >>

FireSequence(valve_np1_ip1_offset, fire_time) ==
    << Ignite, Wait(1000) >>
    \o ( IF valve_np1_ip1_offset >= 0
         THEN << OpenValve(NILE_VALVE_NP1), Wait(valve_np1_ip1_offset),
                 OpenValve(NILE_VALVE_IP1) >>
         ELSE << OpenValve(NILE_VALVE_IP1), Wait(abs(valve_np1_ip1_offset)),
                 OpenValve(NILE_VALVE_NP1) >> )
    \o << Wait(fire_time), Wait(3000),
          CloseValve(NILE_VALVE_NP2), CloseValve(NILE_VALVE_IP2),
          OpenValve(NILE_VALVE_NP3), OpenValve(NILE_VALVE_IP3), Wait(2000),
          CloseValve(NILE_VALVE_NP1), CloseValve(NILE_VALVE_IP1), Done >>

\* What the operator can have typed into the two text boxes of the Fire panel.
FireOffsets == { -1000, 0, 1000 }
FireTimes == { 2000 }

\* FieldReciever::run_sequence_par behind the `!serial_conn_has_died` guard of
\* the Depressurize and Fire buttons.
dispatch_par(self, seq) ==
    IF ~self.serial_conn_has_died THEN [ self EXCEPT !.spawned = << seq >> ] ELSE self

\* FieldReciever::send_command(..).expect(..) of a manual valve button.
manual_command(self, kind, valve, rx_alive) ==
    LET r == send(self.command_chan, rx_alive, ValveCommand_to_string(kind, valve))
    IN  IF r.result = Err
        THEN [ self EXCEPT !.gui_panicked = TRUE ]
        ELSE [ self EXCEPT !.command_chan = r.chan ]

\* The head of GuiApp::update, after its early return: drain, then recompute.
begin_frame(self, tx_alive) ==
    update_stand_state(GuiApp_recieve_fields(self, tx_alive))

(***************************************************************************)
(* Actions                                                                 *)
(***************************************************************************)
\* The console as start_gui and start_field_thread leave it.
ConsoleInit ==
    /\ serial_conn_has_died = FALSE
    /\ stand_state = StandState_default
    /\ ox_fail_popup = FALSE
    /\ fields = << >>
    /\ read_chan = << >>
    /\ command_chan = << >>
    /\ gui_panicked = FALSE
    /\ threads = << >>
    /\ sender = "send_fields"
    /\ reads = 0

\* No sequence is run on inputs of its own.
EngineIdle ==
    /\ writers = << >>
    /\ outbound = << >>
    /\ origin = << >>
    /\ outbound_open = TRUE
    /\ now = 0

\* FieldReader::new: nothing is left over and nothing was sent yet.
FieldReader_new ==
    [ remainder |-> << >>, result |-> "None", fields |-> << >>, reads |-> 0 ]

\* No bytes are decoded on their own.
DecoderIdle ==
    decoder = [ lines |-> << >>, stream |-> << >>, cut |-> 0,
                split |-> FieldReader_new, whole |-> FieldReader_new ]

\* No value token is parsed on its own.
CodecIdle ==
    codec = [ shape |-> "none", tag |-> << >>, literal |-> << >>, token |-> << >>,
              done |-> FALSE, parsed |-> [ result |-> "None" ] ]

\* No call of read_fields has returned to the loop of the thread.
NotReturned == [ result |-> "None", kind |-> "-", fields |-> << >> ]

\* FieldSender::new, with nothing accepted, read or written yet.
FieldSender_new ==
    [ pc |-> "send_fields", i |-> 0, remainder |-> << >>,
      answer |-> [ result |-> "None", chunk |-> << >>, kind |-> "-" ],
      returned |-> NotReturned,
      written |-> << >>, pending |-> << >>, accepted |-> 0, delivered |-> 0 ]

\* No port is served on its own.
PortIdle == port = FieldSender_new

Init ==
    /\ ConsoleInit
    /\ EngineIdle
    /\ DecoderIdle
    /\ CodecIdle
    /\ PortIdle

\* The state one frame leaves behind; a dispatched sequence gets its thread.
Commit(self) ==
    /\ serial_conn_has_died' = self.serial_conn_has_died
    /\ stand_state' = self.stand_state
    /\ ox_fail_popup' = self.ox_fail_popup
    /\ fields' = self.fields
    /\ read_chan' = self.read_chan
    /\ command_chan' = self.command_chan
    /\ gui_panicked' = self.gui_panicked
    /\ threads' = threads \o self.spawned
    /\ UNCHANGED << sender, reads, engine_vars, decoder, codec, port >>

\* A frame that is held up while the transport thread is inside a read.
update_runs_after_read == ~serial_conn_has_died /\ ~gui_panicked /\ sender # "send_fields"

\* GuiApp::update returns at once when the connection has died.
update_runs == ~serial_conn_has_died /\ ~gui_panicked

QueueHasRoom == Len(command_chan) < MaxQueue

RemoveAt(seq, i) == SubSeq(seq, 1, i - 1) \o SubSeq(seq, i + 1, Len(seq))

\* A frame without operator input.
frame_idle ==
    /\ update_runs
    /\ Commit(begin_frame(Self, sender_alive))

\* A frame in which the operator closes the interlock popup.
close_popup ==
    /\ update_runs
    /\ ox_fail_popup
    /\ Commit([ begin_frame(Self, sender_alive) EXCEPT !.ox_fail_popup = FALSE ])

\* A frame in which the operator picks a mode in the "Stand Mode" menu.
click_set_mode(mode) ==
    /\ update_runs
    /\ mode = Safing => QueueHasRoom
    /\ Commit(set_mode(begin_frame(Self, sender_alive), mode, sender_alive))

\* A frame in which the operator presses "Failsafe".
click_failsafe ==
    /\ update_runs
    /\ QueueHasRoom
    /\ Commit(set_mode(begin_frame(Self, sender_alive), Safing, sender_alive))

\* A valve button that still works after the connection has died.
click_valve_when_dead(kind, i) ==
    /\ ~gui_panicked
    /\ QueueHasRoom
    /\ i \in 1 .. Len(manual_control_valves(stand_state.stand_mode))
    /\ Commit(manual_command(begin_frame(Self, sender_alive), kind,
                             manual_control_valves(stand_state.stand_mode)[i],
                             sender_alive))

\* A frame in which the operator presses "Open <valve>" or "Close <valve>".
click_valve(kind, i) ==
    /\ update_runs
    /\ QueueHasRoom
    /\ i \in 1 .. Len(manual_control_valves(stand_state.stand_mode))
    /\ Commit(manual_command(begin_frame(Self, sender_alive), kind,
                             manual_control_valves(stand_state.stand_mode)[i],
                             sender_alive))

\* A "Depressurize System" button offered in every mode.
click_depressurize_any_mode(cap) ==
    /\ update_runs
    /\ Len(threads) < cap
    /\ Commit(dispatch_par(begin_frame(Self, sender_alive), DepressurizeSequence))

\* A frame in which the operator presses "Depressurize System", with fewer than
\* `cap` sequence threads running.
click_depressurize_below(cap) ==
    /\ update_runs
    /\ stand_state.stand_mode = Safing
    /\ Len(threads) < cap
    /\ Commit(dispatch_par(begin_frame(Self, sender_alive), DepressurizeSequence))

click_depressurize == click_depressurize_below(MaxThreads)

\* A frame in which the operator presses "Fire".
click_fire_below(cap, valve_np1_ip1_offset, fire_time) ==
    /\ update_runs
    /\ stand_state.stand_mode = PressurizationAndFiring
    /\ Len(threads) < cap
    /\ Commit(dispatch_par(begin_frame(Self, sender_alive),
                           FireSequence(valve_np1_ip1_offset, fire_time)))

click_fire(valve_np1_ip1_offset, fire_time) ==
    click_fire_below(MaxThreads, valve_np1_ip1_offset, fire_time)

\* One command of a run_sequence_par thread (CommandSequence::run's loop body).
thread_step(i) ==
    /\ i \in 1 .. Len(threads)
    /\ LET command == Head(threads[i])
           r == Command_run(command, command_chan, sender_alive)
       IN  /\ command.op \in { "OpenValve", "CloseValve", "Ignite" } => QueueHasRoom
           /\ command_chan' = r.chan
           /\ threads' = IF r.result = Err \/ Len(threads[i]) = 1
                         THEN RemoveAt(threads, i)
                         ELSE [ threads EXCEPT ![i] = Tail(@) ]
    /\ UNCHANGED << gui_vars, read_chan, sender, reads, engine_vars, decoder, codec, port >>

\* FieldSender::send_fields, the read succeeded: publish what was decoded.
send_fields(parsed) ==
    /\ sender = "send_fields"
    /\ parsed # << >> => reads < MaxReads
    /\ read_chan' = read_chan \o checked_fields(parsed)
    /\ reads' = IF parsed # << >> THEN reads + 1 ELSE reads
    /\ sender' = "send_commands"
    /\ UNCHANGED << gui_vars, command_chan, threads, engine_vars, decoder, codec, port >>

\* FieldSender::send_fields, read_fields returned Err: `expect` panics, the
\* thread unwinds and drops read_tx and command_rx with what was queued.
send_fields_failed ==
    /\ sender = "send_fields"
    /\ sender' = "panicked"
    /\ command_chan' = << >>
    /\ UNCHANGED << gui_vars, read_chan, threads, reads, engine_vars, decoder, codec, port >>

\* FieldSender::send_commands, write_all succeeded.
send_commands ==
    /\ sender = "send_commands"
    /\ command_chan' = << >>
    /\ sender' = "send_fields"
    /\ UNCHANGED << gui_vars, read_chan, threads, reads, engine_vars, decoder, codec, port >>

\* FieldSender::send_commands, write_all failed: `expect` panics.
send_commands_failed ==
    /\ sender = "send_commands"
    /\ sender' = "panicked"
    /\ command_chan' = << >>
    /\ UNCHANGED << gui_vars, read_chan, threads, reads, engine_vars, decoder, codec, port >>

\* The frames of the mode machine: idle, popup, "Stand Mode" menu, "Failsafe".
ModeStep ==
    \/ frame_idle
    \/ close_popup
    \/ \E mode \in StandMode : click_set_mode(mode)
    \/ click_failsafe

\* The mode machine and the manual valve buttons.
ConsoleStep ==
    \/ ModeStep
    \/ \E kind \in { "Open", "Close" }, i \in 1 .. 7 : click_valve(kind, i)

\* The sequence buttons and the threads they spawn.
SequenceStep ==
    \/ click_depressurize
    \/ \E o \in FireOffsets, t \in FireTimes : click_fire(o, t)
    \/ \E i \in 1 .. MaxThreads : thread_step(i)

\* The transport thread's loop, reading chunks out of `chunks`.
TransportStep(chunks) ==
    \/ \E parsed \in chunks : send_fields(parsed)
    \/ send_fields_failed
    \/ send_commands
    \/ send_commands_failed

\* The whole console, telemetry bounded to SequenceChunks.
Next == ConsoleStep \/ SequenceStep \/ TransportStep(SequenceChunks)

Spec == Init /\ [][Next]_vars

\* The mode machine alone (no valve or sequence buttons), under every chunk of
\* ParsedChunks.
NextConsole == ModeStep \/ TransportStep(ParsedChunks)

SpecConsole == Init /\ [][NextConsole]_vars

\* The sequence buttons with up to MaxOverlap threads running.
OverlapStep ==
    \/ click_depressurize_below(MaxOverlap)
    \/ \E o \in FireOffsets, t \in FireTimes : click_fire_below(MaxOverlap, o, t)
    \/ \E i \in 1 .. MaxOverlap : thread_step(i)

\* A stand that sends no telemetry line.
NoTelemetry == { << >> }

\* The mode machine and the sequence buttons while no telemetry arrives.
NextSequences == ModeStep \/ OverlapStep \/ TransportStep(NoTelemetry)

SpecSequences == Init /\ [][NextSequences]_vars

(***************************************************************************)
(* CommandSequence runs on inputs of their own                             *)
(***************************************************************************)
\* The commands the sequences under test are made of.
TestCommands ==
    { OpenValve(NILE_VALVE_NP1), CloseValve(NILE_VALVE_NP1), Ignite, Wait(1000), Done }

ExampleSequence ==
    << OpenValve(NILE_VALVE_NP1), Wait(1000), CloseValve(NILE_VALVE_NP1), Done >>

\* What the first thread runs: every sequence of up to MaxCommands commands.
SequencesUnderTest ==
    UNION { [ 1 .. k -> TestCommands ] : k \in 0 .. MaxCommands } \cup { ExampleSequence }

\* What the second thread runs.
OtherSequences ==
    { << >>,
      << OpenValve(NILE_VALVE_IP1), Wait(400), CloseValve(NILE_VALVE_IP1) >> }

\* The valve buttons the operator presses meanwhile.
ClickLists == { << >>, << ValveCommand("Open", NILE_VALVE_NP2) >> }

WritersUnderTest ==
    { << Writer("run_par", a), Writer("run_par", b), Writer("send_command", c) >> :
         a \in SequencesUnderTest, b \in OtherSequences, c \in ClickLists }

InitEngine ==
    /\ ConsoleInit
    /\ DecoderIdle
    /\ CodecIdle
    /\ PortIdle
    /\ writers \in WritersUnderTest
    /\ outbound = << >>
    /\ origin = << >>
    /\ outbound_open \in BOOLEAN
    /\ now = 0

\* The writer and the time of the texts that `chan` has more than outbound.
Stamp(w, chan) ==
    [ k \in 1 .. (Len(chan) - Len(outbound)) |-> [ by |-> w, at |-> now ] ]

\* A run_par thread that is not asleep takes one turn of its loop.
writer_step(w) ==
    /\ w \in DOMAIN writers
    /\ writers[w].kind = "run_par"
    /\ writers[w].result = "None"
    /\ now >= writers[w].wake
    /\ LET r == run_next(writers[w], outbound, outbound_open, now)
       IN  /\ writers' = [ writers EXCEPT ![w] = r.writer ]
           /\ outbound' = r.chan
           /\ origin' = origin \o Stamp(w, r.chan)
    /\ UNCHANGED << outbound_open, now, console_vars, decoder, codec, port >>

\* The GUI thread sends the command of the next click.
gui_step(w) ==
    /\ w \in DOMAIN writers
    /\ writers[w].kind = "send_command"
    /\ writers[w].result = "None"
    /\ writers[w].pc <= Len(writers[w].commands)
    /\ LET r == send_command_next(writers[w], outbound, outbound_open, now)
       IN  /\ writers' = [ writers EXCEPT ![w] = r.writer ]
           /\ outbound' = r.chan
           /\ origin' = origin \o Stamp(w, r.chan)
    /\ UNCHANGED << outbound_open, now, console_vars, decoder, codec, port >>

\* The transport thread panics: command_rx is dropped.
hang_up ==
    /\ outbound_open
    /\ outbound_open' = FALSE
    /\ UNCHANGED << writers, outbound, origin, now, console_vars, decoder, codec, port >>

\* The threads that are asleep.
Sleeping == { w \in DOMAIN writers : writers[w].result = "None" /\ writers[w].wake > now }

\* Time passes until the next sleeping thread is due.
tick ==
    /\ Sleeping # { }
    /\ now' = CHOOSE t \in { writers[w].wake : w \in Sleeping } :
                  \A w \in Sleeping : t <= writers[w].wake
    /\ UNCHANGED << writers, outbound, origin, outbound_open, console_vars, decoder, codec, port >>

NextEngine ==
    \/ \E w \in 1 .. 3 : writer_step(w)
    \/ \E w \in 1 .. 3 : gui_step(w)
    \/ hang_up
    \/ tick

SpecEngine == InitEngine /\ [][NextEngine]_vars

\* The sequences of the two buttons, run by a thread of run_sequence_par
\* while the operator presses a valve button; no other sequence runs.
ButtonSequences ==
    { DepressurizeSequence }
      \cup { FireSequence(o, t) : o \in FireOffsets, t \in FireTimes }

ButtonWriters ==
    { << Writer("run_par", a), Writer("run_par", b), Writer("send_command", c) >> :
         a \in ButtonSequences, b \in { << >> }, c \in ClickLists }

InitButtons ==
    /\ ConsoleInit
    /\ DecoderIdle
    /\ CodecIdle
    /\ PortIdle
    /\ writers \in ButtonWriters
    /\ outbound = << >>
    /\ origin = << >>
    /\ outbound_open \in BOOLEAN
    /\ now = 0

SpecButtons == InitButtons /\ [][NextEngine]_vars

(***************************************************************************)
(* The telemetry decoder on its own: one byte stream, read by one           *)
(* FieldSender in a single call and by another in two calls.               *)
(***************************************************************************)
\* How many lines the generated streams have at most.
MaxLines == 2

b_true == << "b", "=", "t", "r", "u", "e" >>
b_FALSE == << "b", "=", "F", "A", "L", "S", "E" >>

\* Lines of the documented format [name]:[type]=[value].
ValveOpenLine == as_bytes("NP1_OPEN") \o << ":" >> \o b_true
ValveClosedLine == as_bytes("NP3_OPEN") \o << ":" >> \o b_FALSE
SpacedLine == << " " >> \o as_bytes("NP4_OPEN") \o << " ", ":", " " >> \o b_true \o << " " >>
UnsignedLine == as_bytes("NP2_OPEN") \o << ":", "u", "=", "1" >>
SignedLine == as_bytes("IP1_OPEN") \o << ":", "i", "=", "-", "2" >>
FloatLine == as_bytes("IP2_OPEN") \o << ":", "f", "=", "0", ".", "3" >>
PressureLine == << "P", "T", "0", ":", "f", "=", "3", ".", "1", "4" >>

\* Boolean literals in other letter cases.
UpperTrueLine == as_bytes("NP1_OPEN") \o << ":", "b", "=", "T", "R", "U", "E" >>
LowerFalseLine == as_bytes("NP2_OPEN") \o << ":", "b", "=", "f", "a", "l", "s", "e" >>
MixedTrueLine == as_bytes("IP3_OPEN") \o << ":", "b", "=", "T", "r", "u", "E" >>

WellFormedLines ==
    { ValveOpenLine, ValveClosedLine, SpacedLine, UnsignedLine, SignedLine, FloatLine,
      PressureLine, UpperTrueLine, LowerFalseLine, MixedTrueLine }

\* Lines that are not of that format.
NoColonLine == as_bytes("NP1_OPEN")
TwoColonsLine == ValveOpenLine \o << ":" >>
TwoEqualsLine == ValveOpenLine \o << "=" >>
NoValueLine == as_bytes("NP1_OPEN") \o << ":", "b" >>
UnknownTagLine == as_bytes("NP1_OPEN") \o << ":", "x", "=", "t", "r", "u", "e" >>
BadBooleanLine == as_bytes("NP1_OPEN") \o << ":", "b", "=", "1" >>
BadUnsignedLine == as_bytes("NP1_OPEN") \o << ":", "u", "=", "-", "1" >>
BadFloatLine == as_bytes("NP1_OPEN") \o << ":", "f", "=", "." >>
NonAsciiLine == << LeadByte, ContinuationByte >>

MalformedLines ==
    { NoColonLine, TwoColonsLine, TwoEqualsLine, NoValueLine, UnknownTagLine,
      BadBooleanLine, BadUnsignedLine, BadFloatLine, NonAsciiLine, << >> }

\* The lines every stream of up to MaxLines lines is drawn from.
CoreLines == { ValveOpenLine, PressureLine, NoColonLine, BadBooleanLine, NonAsciiLine }

\* The lists of lines the streams are made of: every short list of core lines,
\* every line alone, and every malformed line between two well-formed ones.
LineLists ==
    UNION { [ 1..k -> CoreLines ] : k \in 0..MaxLines }
      \cup { << l >> : l \in WellFormedLines \cup MalformedLines }
      \cup { << ValveOpenLine, m, ValveClosedLine >> : m \in MalformedLines }
      \cup { << m, PressureLine >> : m \in MalformedLines }
      \cup { << UpperTrueLine, LowerFalseLine >>, << LowerFalseLine, MixedTrueLine >> }

LineEndings == { << "\n" >>, << "\r", "\n" >> }

\* What a stream can end with after its last complete line.
Tails == { << >>, << "N", "P" >> }

\* The bytes of a list of lines, each with its line ending, and of the tail.
RECURSIVE stream_bytes(_, _, _)
stream_bytes(ls, ending, tail) ==
    IF ls = << >> THEN tail
    ELSE Head(ls) \o ending \o stream_bytes(Tail(ls), ending, tail)

\* The 1024 zero bytes of buf after a read of the chunk; the zero bytes the
\* chunk did not overwrite are shortened to one.
read_buf(chunk) == chunk \o << NulByte >>

\* FieldSender::send_fields for a read that returned the chunk: the remainder
\* is kept for the next call and the fields go to read_tx in their order.
send_fields_read(reader, chunk) ==
    LET r == read_fields(read_buf(chunk), reader.remainder)
    IN  [ remainder |-> r.remainder,
          result |-> r.result,
          fields |-> reader.fields \o r.fields,
          reads |-> reader.reads + 1 ]

InitDecoder ==
    /\ ConsoleInit
    /\ EngineIdle
    /\ \E ls \in LineLists, ending \in LineEndings, tail \in Tails :
         LET stream == stream_bytes(ls, ending, tail)
         IN  \E cut \in 0..Len(stream) :
               decoder = [ lines |-> ls, stream |-> stream, cut |-> cut,
                           split |-> FieldReader_new, whole |-> FieldReader_new ]
    /\ CodecIdle
    /\ PortIdle

\* The FieldSender of the console gets the whole stream from a single read and
\* sends the fields over read_tx.
whole_read ==
    /\ decoder.whole.reads = 0
    /\ decoder' = [ decoder EXCEPT !.whole = send_fields_read(@, decoder.stream) ]
    /\ read_chan' = read_chan \o decoder'.whole.fields
    /\ UNCHANGED << gui_vars, command_chan, threads, sender, reads, engine_vars,
                    codec, port >>

\* A FieldSender of its own gets the bytes before the cut from its first read
\* and the bytes after the cut from its second.
split_read ==
    /\ decoder.split.reads < 2
    /\ LET chunk == IF decoder.split.reads = 0
                    THEN SubSeq(decoder.stream, 1, decoder.cut)
                    ELSE SubSeq(decoder.stream, decoder.cut + 1, Len(decoder.stream))
       IN  decoder' = [ decoder EXCEPT !.split = send_fields_read(@, chunk) ]
    /\ UNCHANGED << console_vars, engine_vars, codec, port >>

\* The two readers, and the frames of the GUI that drain what the first sent.
NextDecoder ==
    \/ whole_read
    \/ split_read
    \/ frame_idle

SpecDecoder == InitDecoder /\ [][NextDecoder]_vars

(***************************************************************************)
(* The value codec on its own: one value token, parsed once.               *)
(***************************************************************************)
\* The text before the '=' of a token: the four tags, and near misses.
CodecTags ==
    { << "u" >>, << "i" >>, << "f" >>, << "b" >>,
      << "U" >>, << "B" >>, << "F" >>, << "x" >>, << >>, << "u", "i" >>, << " ", "u" >> }

\* The text after the '=' of a token.
CodecLiterals ==
    { << "0" >>, << "4", "2" >>, << "+", "7" >>, << "-", "3" >>,
      << "3", ".", "1", "4" >>, << "-", ".", "5" >>, << "1", "." >>,
      << "." >>, << "-" >>, << "4", "x" >>, << "1", " " >>, << >>,
      << "t", "r", "u", "e" >>, << "T", "R", "U", "E" >>,
      << "f", "a", "l", "s", "e" >>, << "F", "a", "l", "s", "e" >>,
      << "t" >>, << "y", "e", "s" >>, << "1" >> }

\* Tokens without '=' and tokens with more than one.
BareTokens ==
    { << >>, << "u" >>, << "u", "1" >>, << "t", "r", "u", "e" >>, << "x" >>, << "4", "2" >> }
CrowdedTokens ==
    { << "u", "=", "1", "=", "2" >>, << "b", "=", "=", "t", "r", "u", "e" >>,
      << "=", "=" >>, << "x", "=", "y", "=", "z" >>, << "f", "=", "1", "=" >>,
      << "u", "=", "1", "=", "2", "=", "3" >> }

CodecInput(shape, tag, literal, token) ==
    [ shape |-> shape, tag |-> tag, literal |-> literal, token |-> token,
      done |-> FALSE, parsed |-> [ result |-> "None" ] ]

InitCodec ==
    /\ ConsoleInit
    /\ EngineIdle
    /\ DecoderIdle
    /\ PortIdle
    /\ \/ \E tag \in CodecTags, literal \in CodecLiterals :
            codec = CodecInput("pair", tag, literal, tag \o << "=" >> \o literal)
       \/ \E token \in BareTokens : codec = CodecInput("bare", << >>, << >>, token)
       \/ \E token \in CrowdedTokens : codec = CodecInput("crowded", << >>, << >>, token)

\* The token goes through parse_sensor_value.
parse_value ==
    /\ ~codec.done
    /\ codec' = [ codec EXCEPT !.done = TRUE, !.parsed = parse_sensor_value(codec.token) ]
    /\ UNCHANGED << console_vars, engine_vars, decoder, port >>

NextCodec == parse_value

SpecCodec == InitCodec /\ [][NextCodec]_vars

(***************************************************************************)
(* The transport thread on a port of its own: the loop of                  *)
(* start_field_thread, one answer of the port at a time, and the writers   *)
(* of the command channel.                                                 *)
(***************************************************************************)
\* const MAX_READ_RETRYS in read_fields
MAX_READ_RETRYS == 16

\* io::ErrorKind of a failed read or write
TimedOut == "TimedOut"
BrokenPipe == "BrokenPipe"

\* What one call of Read::read or Write::write_all answers.
IoOk(chunk) == [ result |-> Ok, chunk |-> chunk, kind |-> "-" ]
IoErr(kind) == [ result |-> Err, chunk |-> << >>, kind |-> kind ]

\* The chunks a read of the port can return: nothing, the start of a line,
\* its end, a line and the start of the next, and bytes that are not UTF-8.
HalfLine == as_bytes("NP1_OPEN") \o << ":", "b", "=" >>
RestOfLine == << "t", "r", "u", "e", "\n" >>
LineAndTail == ValveClosedLine \o << "\n", "N", "P" >>
StrayByteChunk == << ContinuationByte, "\n" >>
LineAndStrayByte == ValveOpenLine \o << "\n", ContinuationByte, "\n" >>
CutCharacter == << "\n", LeadByte >>
InvalidChunks == { StrayByteChunk, LineAndStrayByte, CutCharacter }
PortChunks == { << >>, HalfLine, RestOfLine, LineAndTail } \cup InvalidChunks

ReadAnswers == { IoOk(chunk) : chunk \in PortChunks } \cup { IoErr(TimedOut), IoErr(BrokenPipe) }
QuietAnswers == { IoOk(chunk) : chunk \in PortChunks } \cup { IoErr(TimedOut) }

\* An attempt that is repeated whatever the error was.
read_attempt_any_error(self, answer) ==
    IF answer.result = Ok
    THEN LET r == read_fields(read_buf(answer.chunk), self.remainder)
         IN  [ self EXCEPT !.remainder = r.remainder,
                           !.returned = [ result |-> Ok, kind |-> "-", fields |-> r.fields ],
                           !.pc = "send_commands" ]
    ELSE IF self.i # MAX_READ_RETRYS
    THEN [ self EXCEPT !.i = @ + 1 ]
    ELSE [ self EXCEPT !.returned = [ result |-> Err, kind |-> answer.kind, fields |-> << >> ],
                       !.pc = "panicked" ]

\* read_fields, one pass of its retry loop: Ok leaves the loop and the text is
\* decoded behind the remainder, a timeout before the last pass goes on to the
\* next pass, and any other answer is returned as the error, which the
\* `expect` of start_field_thread turns into a panic.
read_attempt(self, answer) ==
    IF answer.result = Ok
    THEN LET r == read_fields(read_buf(answer.chunk), self.remainder)
         IN  [ self EXCEPT !.remainder = r.remainder,
                           !.returned = [ result |-> Ok, kind |-> "-", fields |-> r.fields ],
                           !.pc = "send_commands" ]
    ELSE IF self.i # MAX_READ_RETRYS /\ answer.kind = TimedOut
    THEN [ self EXCEPT !.i = @ + 1 ]
    ELSE [ self EXCEPT !.returned = [ result |-> Err, kind |-> answer.kind, fields |-> << >> ],
                       !.pc = "panicked" ]

\* FieldSender::send_fields, one answer of the port: the fields of a read that
\* decoded go to read_tx; a panic drops command_rx with what it still held.
\* port.written shows the bytes of a write until the next read is answered.
port_read(answer) ==
    /\ port.pc = "send_fields"
    /\ LET next == read_attempt(port, answer)
           sent == IF next.pc = "send_commands" THEN next.returned.fields ELSE << >>
       IN  /\ ( /\ answer.result = Ok
                 /\ Len(answer.chunk) > 0
                 /\ \A k \in 1 .. Len(answer.chunk) : answer.chunk[k] # "\n" )
                => port.remainder = << >>
           /\ sent # << >> => reads < MaxReads
           /\ port' = [ next EXCEPT !.answer = answer, !.written = << >> ]
           /\ read_chan' = read_chan \o sent
           /\ reads' = IF sent # << >> THEN reads + 1 ELSE reads
           /\ command_chan' = IF next.pc = "panicked" THEN << >> ELSE command_chan
    /\ UNCHANGED << gui_vars, threads, sender, engine_vars, decoder, codec >>

\* The commands handed to write_all, the newest first.
RECURSIVE send_commands_bytes_newest_first(_)
send_commands_bytes_newest_first(chan) ==
    IF chan = << >> THEN << "\n" >>
    ELSE send_commands_bytes_newest_first(Tail(chan)) \o Head(chan) \o << "\n" >>

\* The buffer send_commands hands to write_all: a newline, then every command
\* try_recv returned, each followed by a newline.
RECURSIVE send_commands_bytes(_)
send_commands_bytes(chan) ==
    IF chan = << >> THEN << "\n" >>
    ELSE send_commands_bytes(SubSeq(chan, 1, Len(chan) - 1)) \o chan[Len(chan)] \o << "\n" >>

\* FieldSender::send_commands, with the answer of write_all: the queue is
\* drained either way; an error has written some of the bytes and panics the
\* thread through `expect`. The next call of read_fields starts its loop anew.
port_write(answer) ==
    /\ port.pc = "send_commands"
    /\ LET commands == send_commands_bytes(command_chan)
       IN  IF answer.result = Ok
           THEN port' = [ port EXCEPT !.pc = "send_fields", !.written = commands,
                                      !.i = 0, !.returned = NotReturned,
                                      !.pending = << >>, !.answer = answer,
                                      !.delivered = @ + Len(command_chan) ]
           ELSE \E n \in 0 .. Len(commands) - 1 :
                  port' = [ port EXCEPT !.pc = "panicked", !.answer = answer,
                                        !.written = SubSeq(commands, 1, n) ]
    /\ command_chan' = << >>
    /\ UNCHANGED << gui_vars, read_chan, threads, sender, reads, engine_vars, decoder, codec >>

\* The commands the writers send while the port is served on its own.
PortCommands == { OpenValve(NILE_VALVE_NP1), Ignite }

\* Command::run of a sequence thread: the send is accepted while command_rx is
\* alive.
accept_command(command) ==
    /\ port.accepted < MaxAccepted
    /\ LET r == Command_run(command, command_chan, port.pc # "panicked")
       IN  /\ r.result = Ok
           /\ command_chan' = r.chan
           /\ port' = [ port EXCEPT !.accepted = @ + 1, !.pending = Append(@, command) ]
    /\ UNCHANGED << gui_vars, read_chan, threads, sender, reads, engine_vars, decoder, codec >>

\* FieldReciever::send_command of a valve button.
accept_valve_command(kind, name) ==
    /\ port.accepted < MaxAccepted
    /\ LET r == send(command_chan, port.pc # "panicked", ValveCommand_to_string(kind, name))
       IN  /\ r.result = Ok
           /\ command_chan' = r.chan
           /\ port' = [ port EXCEPT !.accepted = @ + 1,
                                    !.pending = Append(@, IF kind = "Open" THEN OpenValve(name)
                                                          ELSE CloseValve(name)) ]
    /\ UNCHANGED << gui_vars, read_chan, threads, sender, reads, engine_vars, decoder, codec >>

AcceptStep ==
    \/ \E command \in PortCommands : accept_command(command)
    \/ accept_valve_command("Close", NILE_VALVE_NP2)

\* The transport thread over a port that answers anything.
NextTransport ==
    \/ AcceptStep
    \/ \E answer \in ReadAnswers : port_read(answer)
    \/ \E answer \in { IoOk(<< >>), IoErr(BrokenPipe) } : port_write(answer)

SpecTransport == Init /\ [][NextTransport]_vars

\* The transport thread over a port without hard errors: a read returns bytes
\* or times out, a write succeeds.
QuietStep ==
    \/ \E answer \in QuietAnswers : port_read(answer)
    \/ port_write(IoOk(<< >>))

NextQuiet == AcceptStep \/ QuietStep

\* The transport thread is a thread of its own that is always scheduled again:
\* a read that no byte answers is answered by the timeout of the port, which
\* every other answer forestalls, and a write that was started completes.
SpecQuiet ==
    /\ Init
    /\ [][NextQuiet]_vars
    /\ WF_vars(port_read(IoErr(TimedOut)))
    /\ WF_vars(port_write(IoOk(<< >>)))

TypeOK ==
    /\ serial_conn_has_died \in BOOLEAN
    /\ ox_fail_popup \in BOOLEAN
    /\ gui_panicked \in BOOLEAN
    /\ stand_state.stand_mode \in StandMode
    /\ DOMAIN fields \subseteq CHECKED_FIELD_NAMES
    /\ sender \in { "send_fields", "send_commands", "panicked" }
    /\ reads \in 0 .. MaxReads
    /\ Len(threads) <= MaxOverlap

(***************************************************************************)
(* Properties                                                              *)
(***************************************************************************)
\* The seven readings of a StandState, by valve.
Reading(state) ==
    [ v \in ValveHandle |->
        CASE v = "NP1" -> state.valve_np1
          [] v = "NP2" -> state.valve_np2
          [] v = "NP3" -> state.valve_np3
          [] v = "NP4" -> state.valve_np4
          [] v = "IP1" -> state.valve_ip1
          [] v = "IP2" -> state.valve_ip2
          [] v = "IP3" -> state.valve_ip3 ]

AllSevenClosed(state) == \A v \in ValveHandle : Reading(state)[v] = Closed

VentsClosed(state) == Reading(state)["NP3"] = Closed /\ Reading(state)["NP4"] = Closed

\* The StandState a click handler of the coming frame sees.
FrameState == begin_frame(Self, sender_alive).stand_state

\* The operator asks for `mode` in this step (menu entry, or "Failsafe").
SetModeCall(mode) == click_set_mode(mode) \/ (mode = Safing /\ click_failsafe)

\* C1: a transition to OxygenFilling succeeds if and only if all seven valves
\* read Closed, from every mode; when some valve is Open or Unknown the call
\* fails, the failure is raised and the mode is unchanged.
C1_EntryInterlock ==
    [][ SetModeCall(OxygenFilling) =>
          /\ transition_mode(FrameState, OxygenFilling).result = Ok
                <=> AllSevenClosed(FrameState)
          /\ AllSevenClosed(FrameState) =>
                stand_state'.stand_mode = OxygenFilling
          /\ ~AllSevenClosed(FrameState) =>
                /\ stand_state'.stand_mode = stand_state.stand_mode
                /\ ox_fail_popup' ]_vars

\* OxygenFilling was entered after an earlier request had been refused.
C1_Witness ==
    /\ stand_state.stand_mode = OxygenFilling
    /\ AllSevenClosed(stand_state)
    /\ ox_fail_popup

\* C2: while the mode is OxygenFilling, a transition to any other mode fails
\* and leaves the mode OxygenFilling unless NP3 and NP4 both read Closed; when
\* both read Closed the exit check passes and the other mode is entered.
C2_ExitInterlock ==
    [][ \A mode \in StandMode \ { OxygenFilling } :
          (SetModeCall(mode) /\ stand_state.stand_mode = OxygenFilling) =>
             /\ ~VentsClosed(FrameState) =>
                   /\ transition_mode(FrameState, mode).result = Err
                   /\ stand_state'.stand_mode = OxygenFilling
                   /\ ox_fail_popup'
             /\ VentsClosed(FrameState) =>
                   /\ transition_mode(FrameState, mode).result = Ok
                   /\ stand_state'.stand_mode = mode ]_vars

\* In OxygenFilling with a vent valve not Closed, and a refusal on display.
C2_Witness ==
    /\ stand_state.stand_mode = OxygenFilling
    /\ ~VentsClosed(stand_state)
    /\ ox_fail_popup

\* The wire texts of the safing sequence, in the order the claims list them.
SafingWireTexts ==
    << << "\n", "OPEN:", "NP3", "\n" >>, << "\n", "OPEN:", "IP3", "\n" >>,
       << "\n", "CLOSE:", "NP1", "\n" >>, << "\n", "CLOSE:", "NP2", "\n" >>,
       << "\n", "CLOSE:", "NP4", "\n" >>, << "\n", "CLOSE:", "IP1", "\n" >>,
       << "\n", "CLOSE:", "IP2", "\n" >> >>

\* C3: a set_mode(target) call is atomic: either the mode is the target (and,
\* for Safing over a live queue, the safing sequence was enqueued), or the mode
\* is unchanged, the failure is raised and no command was enqueued.
C3_AtomicTransition ==
    [][ \A mode \in StandMode :
          SetModeCall(mode) =>
             \/ /\ stand_state'.stand_mode = mode
                /\ (mode = Safing /\ sender_alive) =>
                      command_chan' = command_chan \o SafingWireTexts
             \/ /\ stand_state'.stand_mode = stand_state.stand_mode
                /\ ox_fail_popup'
                /\ command_chan' = command_chan ]_vars

\* C4: when the synchronous safing sequence fails to send (the outbound queue
\* is closed), set_mode(Safing) does not change the mode to Safing.
C4_SafingNeedsAcceptedSequence ==
    [][ ( /\ SetModeCall(Safing)
          /\ stand_state.stand_mode # Safing
          /\ run(SafingSequence, command_chan, sender_alive).result = Err )
        => stand_state'.stand_mode # Safing ]_vars

\* C5: every set_mode call that leaves the mode Safing has enqueued exactly
\* OPEN NP3, OPEN IP3, CLOSE NP1, CLOSE NP2, CLOSE NP4, CLOSE IP1, CLOSE IP2
\* and nothing else by the time it returns.
C5_SafingEntryEnqueues ==
    [][ (SetModeCall(Safing) /\ stand_state'.stand_mode = Safing) =>
           command_chan' = command_chan \o SafingWireTexts ]_vars

\* C6: a transition to CheckOut or PressurizationAndFiring has no entry
\* precondition: it succeeds from every mode other than OxygenFilling in every
\* StandState, and from OxygenFilling whenever NP3 and NP4 read Closed.
C6_NoEntryPrecondition ==
    [][ \A mode \in { CheckOut, PressurizationAndFiring } :
          ( /\ SetModeCall(mode)
            /\ stand_state.stand_mode # OxygenFilling \/ VentsClosed(FrameState) ) =>
             /\ transition_mode(FrameState, mode).result = Ok
             /\ stand_state'.stand_mode = mode
             /\ ox_fail_popup' = ox_fail_popup ]_vars

\* PressurizationAndFiring was entered although no valve reads Closed.
C6_Witness ==
    /\ stand_state.stand_mode = PressurizationAndFiring
    /\ \A v \in ValveHandle : Reading(stand_state)[v] # Closed
    /\ \E v \in ValveHandle : Reading(stand_state)[v] = Open

\* C7: the initial state has mode Safing and all seven valves Unknown, and as
\* long as the snapshot lacks the field of some valve a transition to
\* OxygenFilling fails.
C7_InitialState ==
    /\ stand_state.stand_mode = Safing
    /\ \A v \in ValveHandle : Reading(stand_state)[v] = None
    /\ [][ (SetModeCall(OxygenFilling) /\ DOMAIN fields' # CHECKED_FIELD_NAMES) =>
             /\ stand_state'.stand_mode = stand_state.stand_mode
             /\ ox_fail_popup' ]_vars

\* OxygenFilling was refused while telemetry of only some valves had arrived.
C7_Witness ==
    /\ DOMAIN fields # { }
    /\ DOMAIN fields # CHECKED_FIELD_NAMES
    /\ stand_state.stand_mode = Safing
    /\ ox_fail_popup

\* C8: ox_fail_popup is raised only by a set_mode call whose transition check
\* failed, serial_conn_has_died only by a failed drain or a failed send of the
\* safing sequence; a failed check over a working channel leaves the link up.
C8_FailuresDistinguished ==
    [][ /\ (ox_fail_popup' /\ ~ox_fail_popup) =>
              \E mode \in StandMode :
                 /\ SetModeCall(mode)
                 /\ transition_mode(FrameState, mode).result = Err
        /\ (serial_conn_has_died' /\ ~serial_conn_has_died) =>
              \/ recieve_fields_result(sender_alive) = Err
              \/ /\ SetModeCall(Safing)
                 /\ run(SafingSequence, command_chan, sender_alive).result = Err
        /\ \A mode \in StandMode :
              ( /\ SetModeCall(mode)
                /\ transition_mode(FrameState, mode).result = Err
                /\ sender_alive ) => ~serial_conn_has_died' ]_vars

\* An interlock refusal is on display and the link is still up.
C8_Witness ==
    /\ ox_fail_popup
    /\ ~serial_conn_has_died
    /\ sender_alive
    /\ stand_state.stand_mode = OxygenFilling
    /\ ~VentsClosed(stand_state)

\* The telemetry field of a valve.
OpenField(v) ==
    CASE v = "NP1" -> "NP1_OPEN" [] v = "NP2" -> "NP2_OPEN"
      [] v = "NP3" -> "NP3_OPEN" [] v = "NP4" -> "NP4_OPEN"
      [] v = "IP1" -> "IP1_OPEN" [] v = "IP2" -> "IP2_OPEN"
      [] v = "IP3" -> "IP3_OPEN"

\* C9: every valve state is a function of the snapshot alone: Open iff the
\* snapshot maps <HANDLE>_OPEN to Boolean(true), Closed iff to Boolean(false),
\* Unknown when the field is absent or not a Boolean.
C9_ValvesFollowSnapshot ==
    \A v \in ValveHandle :
       LET present == OpenField(v) \in DOMAIN fields
           reading == Reading(stand_state)[v]
       IN  /\ reading = Open <=> (present /\ fields[OpenField(v)] = Boolean(TRUE))
           /\ reading = Closed <=> (present /\ fields[OpenField(v)] = Boolean(FALSE))
           /\ reading = None <=>
                 (~present \/ fields[OpenField(v)].kind # "Boolean")

\* One valve reads Closed, another Unknown because its field is not a Boolean.
C9_Witness ==
    /\ "NP1_OPEN" \in DOMAIN fields
    /\ fields["NP1_OPEN"].kind = "UnsignedInt"
    /\ stand_state.valve_np1 = None
    /\ stand_state.valve_np2 = Closed

\* C10: the mode changes only in a set_mode call whose transition succeeded
\* (not by update, draining, commands or sequence threads), and a transition,
\* successful or failed, leaves the seven valve states as update computed them.
C10_ModeFrame ==
    [][ /\ stand_state'.stand_mode # stand_state.stand_mode =>
              \E mode \in StandMode :
                 /\ SetModeCall(mode)
                 /\ transition_mode(FrameState, mode).result = Ok
                 /\ stand_state'.stand_mode = mode
        /\ \A mode \in StandMode :
              /\ SetModeCall(mode) => Reading(stand_state') = Reading(FrameState)
              /\ Reading(transition_mode(stand_state, mode).state)
                    = Reading(stand_state) ]_vars

\* Telemetry was drained and a sequence thread is running in a mode other
\* than the one its button belongs to.
C10_Witness ==
    /\ stand_state.stand_mode = CheckOut
    /\ fields # << >>
    /\ threads # << >>
    /\ command_chan # << >>

\* C17: after a hard I/O error has ended the transport thread's loop, the
\* next drain reports the lost connection (unlike an empty queue), so every
\* frame that runs from then on leaves the console disconnected.
C17_DrainSeesLostConnection ==
    [][ (ModeStep /\ sender = "panicked") => serial_conn_has_died' ]_vars

\* C18: every failed send to the closed outbound queue, by the synchronous
\* safing sequence, by a sequence thread or by a manual valve button, leaves
\* serial_conn_has_died true.
C18_SendFailureSurfaced ==
    [][ /\ ( /\ SetModeCall(Safing)
             /\ run(SafingSequence, command_chan, sender_alive).result = Err )
           => serial_conn_has_died'
        /\ \A i \in 1 .. MaxThreads :
              ( /\ thread_step(i)
                /\ Command_run(Head(threads[i]), command_chan, sender_alive).result = Err )
              => serial_conn_has_died'
        /\ \A kind \in { "Open", "Close" }, i \in 1 .. 7 :
              (click_valve(kind, i) /\ ~sender_alive) => serial_conn_has_died' ]_vars

\* C16: in every reachable state of the console at most one sequence started
\* by the Fire or Depressurize button is in flight.
C16_OneSequenceInFlight == Len(threads) <= 1

(***************************************************************************)
(* Properties of CommandSequence runs                                      *)
(***************************************************************************)
\* The commands that are sent to the stand.
Sends(command) == command.op \in { "OpenValve", "CloseValve", "Ignite" }

\* The wire text the claims give for a command.
WireText(command) ==
    CASE command.op = "OpenValve" -> << "\n", "OPEN:", command.valve, "\n" >>
      [] command.op = "CloseValve" -> << "\n", "CLOSE:", command.valve, "\n" >>
      [] command.op = "Ignite" -> << "\n", "IGNITE", "\n" >>

WireTexts(commands) ==
    LET sent == SelectSeq(commands, Sends)
    IN  [ i \in 1 .. Len(sent) |-> WireText(sent[i]) ]

\* The texts writer w has in the outbound queue, in the queue's order.
SentBy(w) ==
    LET HasOrigin(k) == k <= Len(origin) /\ origin[k].by = w
        at == SelectSeq([ k \in 1 .. Len(outbound) |-> k ], HasOrigin)
    IN  [ i \in 1 .. Len(at) |-> outbound[at[i]] ]

RunPar == { w \in DOMAIN writers : writers[w].kind = "run_par" }
Gui == { w \in DOMAIN writers : writers[w].kind = "send_command" }

OpenNp1Text == << "\n", "OPEN:", "NP1", "\n" >>
CloseNp1Text == << "\n", "CLOSE:", "NP1", "\n" >>

\* C11: a sequence run against a live outbound queue enqueues exactly the wire
\* texts of its OpenValve, CloseValve and Ignite commands, once each and in
\* list order, and nothing for Wait and Done; so does the synchronous run, and
\* so has every run_par thread that returned Ok with the queue still live.
C11_RunEnqueuesWireTexts ==
    \A w \in RunPar :
       /\ run(writers[w].commands, outbound, TRUE)
             = [ result |-> Ok, chan |-> outbound \o WireTexts(writers[w].commands) ]
       /\ (outbound_open /\ writers[w].result = Ok) =>
             SentBy(w) = WireTexts(writers[w].commands)

\* [OpenValve(NP1), Wait, CloseValve(NP1), Done] has returned, having enqueued
\* OPEN:NP1 then CLOSE:NP1 among the texts of the other writers.
C11_Witness ==
    /\ writers # << >>
    /\ writers[1].commands = ExampleSequence
    /\ writers[1].result = Ok
    /\ outbound_open
    /\ SentBy(1) = << OpenNp1Text, CloseNp1Text >>
    /\ Len(outbound) > 2

\* C12: a command that follows Wait(d) in its sequence does not begin (and so
\* is not enqueued) before d milliseconds have passed since the Wait began;
\* the Wait holds only its own thread: every other thread that is due can
\* take its next step.
C12_WaitHoldsOnlyItsThread ==
    /\ \A w \in RunPar :
          \A i, j \in 1 .. Len(writers[w].started) :
             (i < j /\ writers[w].commands[i].op = "Wait") =>
                writers[w].started[j] >= writers[w].started[i] + writers[w].commands[i].ms
    /\ \A k \in 1 .. Len(origin) :
          origin[k].by \in RunPar => origin[k].at \in
             { writers[origin[k].by].started[j] :
                  j \in 1 .. Len(writers[origin[k].by].started) }
    /\ \A w \in RunPar :
          (writers[w].result = "None" /\ now >= writers[w].wake) => ENABLED writer_step(w)
    /\ \A w \in Gui :
          (writers[w].result = "None" /\ writers[w].pc <= Len(writers[w].commands))
             => ENABLED gui_step(w)

\* The second thread enqueued a text in the middle of a Wait of the first.
C12_Witness ==
    /\ writers # << >>
    /\ \E i \in 1 .. Len(writers[1].started), k \in 1 .. Len(origin) :
          /\ writers[1].commands[i].op = "Wait"
          /\ origin[k].by = 2
          /\ writers[1].started[i] < origin[k].at
          /\ origin[k].at < writers[1].started[i] + writers[1].commands[i].ms
    /\ \E j \in 1 .. Len(writers[1].started) :
          /\ j > 1
          /\ writers[1].commands[j - 1].op = "Wait"
          /\ Sends(writers[1].commands[j])

\* C13: when the send of step k fails, the run returns the error in that
\* step: no later command is run or waited on, then or ever after, and what
\* was enqueued before step k stays in the queue.
C13_SendFailureEndsRun ==
    [][ \A w \in RunPar :
          /\ ( /\ writer_step(w)
               /\ ~outbound_open
               /\ writers[w].pc <= Len(writers[w].commands)
               /\ Sends(writers[w].commands[writers[w].pc]) )
             => /\ writers'[w].result = Err
                /\ writers'[w].pc = writers[w].pc
                /\ writers'[w].wake = writers[w].wake
                /\ outbound' = outbound
          /\ writers[w].result = Err =>
                /\ writers'[w] = writers[w]
                /\ SentBy(w)' = SentBy(w)
                /\ SentBy(w) = WireTexts(SubSeq(writers[w].commands, 1, writers[w].pc - 1))
          /\ run(writers[w].commands, outbound, FALSE).chan = outbound
          /\ run(writers[w].commands, outbound, FALSE).result = Err
                <=> \E i \in 1 .. Len(writers[w].commands) : Sends(writers[w].commands[i]) ]_vars

\* The first thread failed at its second command; its first text is still
\* in the queue.
C13_Witness ==
    /\ writers # << >>
    /\ writers[1].result = Err
    /\ writers[1].pc = 2
    /\ Len(SentBy(1)) = 1

\* Whether command_rx was alive at every command w has begun, or at none.
QueueStateKept(w) ==
    \A i \in 1 .. Len(writers[w].live) : writers[w].live[i] = outbound_open

\* C14: a run_par thread that has returned, the outbound queue having been in
\* one state throughout, has enqueued what run enqueues in that state, in the
\* same order, and its handle holds the result run returns; meanwhile the
\* caller (the GUI thread) was never kept from sending.
C14_RunParMatchesRun ==
    /\ \A w \in RunPar :
          (writers[w].result # "None" /\ QueueStateKept(w)) =>
             /\ writers[w].result = run(writers[w].commands, << >>, outbound_open).result
             /\ SentBy(w) = run(writers[w].commands, << >>, outbound_open).chan
    /\ \A g \in Gui :
          ( /\ writers[g].result = "None"
            /\ writers[g].pc <= Len(writers[g].commands)
            /\ \E w \in RunPar : writers[w].result = "None" )
          => ENABLED gui_step(g)

\* The GUI thread's text lies between two texts of a thread that returned Ok.
C14_Witness ==
    /\ writers # << >>
    /\ writers[1].result = Ok
    /\ QueueStateKept(1)
    /\ \E i, j, k \in 1 .. Len(origin) :
          /\ i < j /\ j < k
          /\ origin[i].by = 1 /\ origin[j].by = 3 /\ origin[k].by = 1

\* C15: under every interleaving of the writers the texts of each sequence
\* are in the queue in the sequence's list order, each text of each writer
\* exactly once: nothing is lost, duplicated or written by no one.
C15_WritersKeepOrder ==
    /\ Len(origin) = Len(outbound)
    /\ \A w \in RunPar :
          LET done == IF writers[w].result = Err
                      THEN writers[w].pc - 1
                      ELSE Len(writers[w].started)
          IN  SentBy(w) = WireTexts(SubSeq(writers[w].commands, 1, done))
    /\ \A g \in Gui :
          SentBy(g) = [ i \in 1 .. writers[g].pc - 1 |->
                          ValveCommand_to_string(writers[g].commands[i].kind,
                                                 writers[g].commands[i].name) ]

\* Texts of all three writers are in the queue, one of the second thread
\* between two of the first.
C15_Witness ==
    /\ writers # << >>
    /\ \E i, j, k \in 1 .. Len(origin) :
          /\ i < j /\ j < k
          /\ origin[i].by = 1 /\ origin[j].by = 2 /\ origin[k].by = 1
    /\ \E k \in 1 .. Len(origin) : origin[k].by = 3

(***************************************************************************)
(* Claims about the telemetry decoder (SpecDecoder).                        *)
(***************************************************************************)
\* Both FieldSenders have read the whole stream.
BothDecoded == decoder.whole.reads = 1 /\ decoder.split.reads = 2

\* C19: a stream read in two calls, cut at any position and with the remainder
\* of the first call given to the second, yields the same fields in the same
\* order and the same final remainder as the stream read in one call.
C19_RemainderThreading ==
    BothDecoded =>
        /\ decoder.split.fields = decoder.whole.fields
        /\ decoder.split.remainder = decoder.whole.remainder

\* The field a well-formed line of a checked valve stands for.
FieldOf(line) ==
    CASE line = ValveOpenLine -> SensorField("NP1_OPEN", Boolean(TRUE))
      [] line = ValveClosedLine -> SensorField("NP3_OPEN", Boolean(FALSE))
      [] line = SpacedLine -> SensorField("NP4_OPEN", Boolean(TRUE))
      [] line = UnsignedLine -> SensorField("NP2_OPEN", UnsignedInt(1))
      [] line = SignedLine -> SensorField("IP1_OPEN", SignedInt(0 - 2))
      [] line = FloatLine -> SensorField("IP2_OPEN", Float(<< "0", ".", "3" >>))
      [] line = UpperTrueLine -> SensorField("NP1_OPEN", Boolean(TRUE))
      [] line = LowerFalseLine -> SensorField("NP2_OPEN", Boolean(FALSE))
      [] line = MixedTrueLine -> SensorField("IP3_OPEN", Boolean(TRUE))

\* The fields of the well-formed lines of checked valves in a list of lines.
FieldsOf(ls) ==
    LET kept == SelectSeq(ls, LAMBDA l : l \in WellFormedLines \ { PressureLine })
    IN  [ i \in 1..Len(kept) |-> FieldOf(kept[i]) ]

\* C20: a chunk with malformed lines (no ':', more than one ':' or '=', an
\* unknown type tag, an invalid literal) is decoded with result Ok, and every
\* well-formed line before and after a malformed one yields its field.
C20_MalformedLineDropped ==
    decoder.whole.reads = 1 =>
        /\ decoder.whole.result = Ok
        /\ decoder.whole.fields = FieldsOf(decoder.lines)

C20_Witness ==
    /\ decoder.whole.reads = 1
    /\ decoder.lines = << ValveOpenLine, TwoColonsLine, ValveClosedLine >>
    /\ decoder.whole.result = Ok
    /\ decoder.whole.fields = << SensorField("NP1_OPEN", Boolean(TRUE)),
                                 SensorField("NP3_OPEN", Boolean(FALSE)) >>

\* C21: one malformed line followed by the line PT0:f=3.14, read in one call,
\* yields exactly one decoded field, and its name is PT0.
C21_UncheckedNameReturned ==
    ( /\ decoder.whole.reads = 1
      /\ \E m \in MalformedLines : decoder.lines = << m, PressureLine >> )
    => /\ Len(decoder.whole.fields) = 1
       /\ decoder.whole.fields[1].name = "PT0"

\* C22: the lines NP1_OPEN:b=TRUE and NP2_OPEN:b=false decode to Boolean(true)
\* and Boolean(false), and once a frame has drained them and updated the stand
\* state, NP1 reads Open, NP2 Closed and the five other valves unknown.
C22_LettersCaseEndToEnd ==
    ( /\ decoder.lines = << UpperTrueLine, LowerFalseLine >>
      /\ decoder.whole.reads = 1 )
    => /\ decoder.whole.fields = << SensorField("NP1_OPEN", Boolean(TRUE)),
                                    SensorField("NP2_OPEN", Boolean(FALSE)) >>
       /\ read_chan = << >> =>
             /\ stand_state.valve_np1 = Open
             /\ stand_state.valve_np2 = Closed
             /\ \A v \in { "valve_np3", "valve_np4", "valve_ip1", "valve_ip2", "valve_ip3" } :
                    stand_state[v] = None

C22_Witness ==
    /\ decoder.lines = << UpperTrueLine, LowerFalseLine >>
    /\ decoder.whole.reads = 1
    /\ read_chan = << >>
    /\ stand_state.valve_np1 = Open
    /\ stand_state.valve_np2 = Closed
    /\ stand_state.valve_ip3 = None

(***************************************************************************)
(* Claims about the snapshot and the buttons of the console.               *)
(***************************************************************************)
\* The index of the field published last under name n in queue q.
LatestIn(q, n) ==
    CHOOSE k \in 1 .. Len(q) :
        q[k].name = n /\ \A j \in (k + 1) .. Len(q) : q[j].name # n

\* C23: a frame's drain empties the queue and leaves, for every name, exactly
\* the value published last under that name in the queue, or the value the
\* snapshot had when the queue holds none; with an empty queue the drain is
\* not blocked either, the frame goes on.
C23_SnapshotKeepsLatest ==
    /\ []((update_runs /\ read_chan = << >>) => ENABLED frame_idle)
    /\ [][ ModeStep =>
             /\ read_chan' = << >>
             /\ DOMAIN fields' =
                   DOMAIN fields \cup { read_chan[k].name : k \in 1 .. Len(read_chan) }
             /\ \A n \in DOMAIN fields' :
                   fields'[n] =
                      IF \E k \in 1 .. Len(read_chan) : read_chan[k].name = n
                      THEN read_chan[LatestIn(read_chan, n)].value
                      ELSE fields[n] ]_vars

C23_Witness ==
    /\ read_chan = << >>
    /\ reads = 2
    /\ DOMAIN fields = CHECKED_FIELD_NAMES
    /\ fields["NP1_OPEN"] = Boolean(TRUE)
    /\ fields["NP2_OPEN"] = Boolean(FALSE)

\* The valves the manual-control policy exposes in a mode.
ExposedValves(mode) ==
    CASE mode = CheckOut -> { "NP1", "NP2", "NP3", "NP4", "IP1", "IP2", "IP3" }
      [] mode = OxygenFilling -> { "NP3", "NP4" }
      [] mode = PressurizationAndFiring -> { "NP2", "NP3", "IP2", "IP3" }
      [] mode = Safing -> { }

\* A frame in which a manual valve button is pressed.
ManualClick == \E kind \in { "Open", "Close" }, i \in 1 .. 7 : click_valve(kind, i)

\* C24: a manual OPEN or CLOSE is submitted only for a valve the current mode
\* exposes: all seven in CheckOut, NP3 and NP4 in OxygenFilling, NP2, NP3, IP2
\* and IP3 in PressurizationAndFiring, none in Safing.
C24_ManualControlPolicy ==
    [][ ManualClick =>
           \/ gui_panicked'
           \/ \E v \in ExposedValves(stand_state.stand_mode) :
                 \/ command_chan' = Append(command_chan, << "\n", "OPEN:", v, "\n" >>)
                 \/ command_chan' = Append(command_chan, << "\n", "CLOSE:", v, "\n" >>) ]_vars

\* No sequence holds a CLOSE of NP3: only the button can have sent it.
C24_Witness ==
    /\ stand_state.stand_mode = PressurizationAndFiring
    /\ command_chan = << << "\n", "CLOSE:", "NP3", "\n" >> >>

\* A Fire sequence is the one that ignites; a Depressurize sequence opens NP4.
IsFire(commands) == \E k \in 1 .. Len(commands) : commands[k].op = "Ignite"
IsDepressurize(commands) ==
    \E k \in 1 .. Len(commands) :
        commands[k].op = "OpenValve" /\ commands[k].valve = "NP4"

\* C25: a sequence thread is started only for a Depressurize sequence while the
\* mode is Safing or for a Fire sequence while the mode is
\* PressurizationAndFiring, and never once the connection has died.
C25_SequenceGatedByMode ==
    [][ Len(threads') > Len(threads) =>
           LET started == threads'[Len(threads')]
           IN  /\ ~serial_conn_has_died
               /\ \/ IsDepressurize(started) /\ ~IsFire(started)
                        /\ stand_state.stand_mode = Safing
                  \/ IsFire(started) /\ ~IsDepressurize(started)
                        /\ stand_state.stand_mode = PressurizationAndFiring ]_vars

C25_Witness ==
    /\ stand_state.stand_mode = PressurizationAndFiring
    /\ ~serial_conn_has_died
    /\ Len(threads) = 1
    /\ threads[1] \in { FireSequence(o, t) : o \in FireOffsets, t \in FireTimes }

(***************************************************************************)
(* Claims about the sequences of the two buttons (SpecButtons).            *)
(***************************************************************************)
OpenText(v) == << "\n", "OPEN:", v, "\n" >>
CloseText(v) == << "\n", "CLOSE:", v, "\n" >>
IgniteText == << "\n", "IGNITE", "\n" >>

\* Writer w has the text in the outbound queue; the time it was sent at.
HasSent(w, text) ==
    \E k \in 1 .. Len(outbound) : origin[k].by = w /\ outbound[k] = text
SentAt(w, text) ==
    origin[CHOOSE k \in 1 .. Len(outbound) : origin[k].by = w /\ outbound[k] = text].at

\* The threads that run a Depressurize or a Fire sequence.
Depressurizing == { w \in RunPar : IsDepressurize(writers[w].commands) }
Firing == { w \in RunPar : IsFire(writers[w].commands) }

\* C26: what a Depressurize sequence sends is exactly OPEN NP4, CLOSE NP4,
\* OPEN IP2, CLOSE IP2, OPEN NP2, CLOSE NP2, and the first text is OPEN NP4.
C26_DepressurizeExactly ==
    \A w \in Depressurizing :
       /\ SentBy(w) # << >> => SentBy(w)[1] = OpenText("NP4")
       /\ (outbound_open /\ writers[w].result = Ok) =>
             SentBy(w) = << OpenText("NP4"), CloseText("NP4"),
                            OpenText("IP2"), CloseText("IP2"),
                            OpenText("NP2"), CloseText("NP2") >>

\* The valves of NP4, IP2, NP2 that thread w has commanded open and not closed.
CommandedOpen(w) ==
    { v \in { "NP4", "IP2", "NP2" } : HasSent(w, OpenText(v)) /\ ~HasSent(w, CloseText(v)) }

\* C27: a Depressurize sequence has at most one of NP4, IP2, NP2 commanded open
\* at any time; each CLOSE comes at least 5 s after its OPEN, and IP2 is opened
\* at least 1 s after the CLOSE of NP4, NP2 at least 1 s after that of IP2.
C27_OneVentAtATime ==
    \A w \in Depressurizing :
       /\ Cardinality(CommandedOpen(w)) <= 1
       /\ \A v \in { "NP4", "IP2", "NP2" } :
             HasSent(w, CloseText(v)) =>
                /\ HasSent(w, OpenText(v))
                /\ SentAt(w, CloseText(v)) >= SentAt(w, OpenText(v)) + 5000
       /\ \A pair \in { << "NP4", "IP2" >>, << "IP2", "NP2" >> } :
             HasSent(w, OpenText(pair[2])) =>
                /\ HasSent(w, CloseText(pair[1]))
                /\ SentAt(w, OpenText(pair[2])) >= SentAt(w, CloseText(pair[1])) + 1000

C27_Witness ==
    \E w \in Depressurizing :
       /\ writers[w].result = Ok
       /\ outbound_open
       /\ HasSent(w, CloseText("NP2"))
       /\ SentAt(w, OpenText("NP2")) = 13000

C29_FireShutdown ==
    \A w \in Firing :
       \A o \in FireOffsets, t \in FireTimes :
          ( /\ writers[w].commands = FireSequence(o, t)
            /\ outbound_open
            /\ writers[w].result = Ok ) =>
             LET second == IF o >= 0 THEN "IP1" ELSE "NP1"
                 opened == SentAt(w, OpenText(second))
             IN  /\ \A v \in { "NP1", "IP1", "NP2", "IP2" } : HasSent(w, CloseText(v))
                 /\ \A v \in { "NP3", "IP3" } : HasSent(w, OpenText(v))
                 /\ SentAt(w, CloseText("NP1")) <= opened + t + 3000
                 /\ SentAt(w, CloseText("IP1")) <= opened + t + 3000

C35_DisconnectedAbsorbing ==
    [][ serial_conn_has_died =>
           /\ serial_conn_has_died'
           /\ fields' = fields
           /\ stand_state' = stand_state
           /\ gui_panicked' = gui_panicked
           /\ Len(read_chan') >= Len(read_chan)
           /\ SubSeq(read_chan', 1, Len(read_chan)) = read_chan
           /\ Len(threads') <= Len(threads)
           /\ \/ command_chan' = command_chan
              \/ command_chan' = << >>
              \/ \E i \in 1 .. Len(threads) : thread_step(i) ]_vars

\* The console is dead while a sequence it started is still running.
C35_Witness ==
    /\ serial_conn_has_died
    /\ threads # << >>

\* C36: the Failsafe button brings the mode to Safing from every mode and every
\* StandState, OxygenFilling with NP3 or NP4 open or unknown included.
C36_FailsafeReachesSafing ==
    [][ click_failsafe => stand_state'.stand_mode = Safing ]_vars

\* The texts that light the igniter or open a main propellant valve.
MainTexts ==
    { << "\n", "IGNITE", "\n" >>, << "\n", "OPEN:", "NP1", "\n" >>,
      << "\n", "OPEN:", "IP1", "\n" >> }

\* C37: while the mode is Safing nothing enqueues IGNITE, OPEN NP1 or OPEN IP1,
\* a Fire sequence started before Safing was entered included.
C37_NoFiringInSafing ==
    [][ (stand_state.stand_mode = Safing /\ stand_state'.stand_mode = Safing) =>
           \A text \in MainTexts : command_chan' # Append(command_chan, text) ]_vars

\* The outbound queue ends with the texts of the safing sequence.
SafingQueued ==
    /\ Len(command_chan) >= Len(SafingWireTexts)
    /\ SubSeq(command_chan, Len(command_chan) - Len(SafingWireTexts) + 1, Len(command_chan))
          = SafingWireTexts

\* C39: the safing sequence has been dispatched whenever the mode is Safing: it
\* is in the outbound queue when the console starts in Safing, and every step
\* that makes the mode Safing enqueues it.
C39_SafingDispatchedOnEntry ==
    /\ stand_state.stand_mode = Safing => SafingQueued
    /\ [][ (stand_state.stand_mode # Safing /\ stand_state'.stand_mode = Safing) =>
             command_chan' = command_chan \o SafingWireTexts ]_vars

(***************************************************************************)
(* Claims about the value codec (SpecCodec).                               *)
(***************************************************************************)
\* The literals Rust's u64, i64 and f64 parsers and the Boolean match accept,
\* among CodecLiterals, with the value each stands for.
UnsignedLiterals ==
    { << << "0" >>, 0 >>, << << "1" >>, 1 >>, << << "4", "2" >>, 42 >>, << << "+", "7" >>, 7 >> }
SignedLiterals == UnsignedLiterals \cup { << << "-", "3" >>, 0 - 3 >> }
FloatLiterals ==
    { << "0" >>, << "1" >>, << "4", "2" >>, << "+", "7" >>, << "-", "3" >>,
      << "3", ".", "1", "4" >>, << "-", ".", "5" >>, << "1", "." >> }
TrueLiterals == { << "t", "r", "u", "e" >>, << "T", "R", "U", "E" >> }
FalseLiterals == { << "f", "a", "l", "s", "e" >>, << "F", "a", "l", "s", "e" >> }

\* What the outcome table gives for a tag and a literal.
Tabled(tag, literal) ==
    CASE tag = << "u" >> ->
            IF \E e \in UnsignedLiterals : e[1] = literal
            THEN [ result |-> Ok,
                   value |-> UnsignedInt((CHOOSE e \in UnsignedLiterals : e[1] = literal)[2]) ]
            ELSE Fail(InvalidValue(literal))
      [] tag = << "i" >> ->
            IF \E e \in SignedLiterals : e[1] = literal
            THEN [ result |-> Ok,
                   value |-> SignedInt((CHOOSE e \in SignedLiterals : e[1] = literal)[2]) ]
            ELSE Fail(InvalidValue(literal))
      [] tag = << "f" >> ->
            IF literal \in FloatLiterals
            THEN [ result |-> Ok, kind |-> "Float" ]
            ELSE Fail(InvalidValue(literal))
      [] tag = << "b" >> ->
            IF literal \in TrueLiterals THEN [ result |-> Ok, value |-> Boolean(TRUE) ]
            ELSE IF literal \in FalseLiterals THEN [ result |-> Ok, value |-> Boolean(FALSE) ]
            ELSE Fail(InvalidValue(literal))
      [] OTHER -> Fail(InvalidType(tag))

\* C32: a token with more than one '=' fails with ToManyTokens, one without
\* '=' with MissingValue, a tag other than exactly u, i, f or b with
\* InvalidType(tag), a literal invalid for its tag with InvalidValue(literal);
\* otherwise the result is the value of the tag's own kind.
C32_ValueOutcomeTable ==
    codec.done =>
        CASE codec.shape = "crowded" -> codec.parsed = Fail(ToManyTokens)
          [] codec.shape = "bare" -> codec.parsed = Fail(MissingValue)
          [] OTHER ->
                LET expected == Tabled(codec.tag, codec.literal)
                IN  IF expected.result = Ok /\ codec.tag = << "f" >>
                    THEN /\ codec.parsed.result = Ok
                         /\ codec.parsed.value.kind = "Float"
                    ELSE codec.parsed = expected

\* A literal that is a signed integer, under the tag of the unsigned ones and
\* under its own.
C32_Witness ==
    /\ codec.done
    /\ codec.literal = << "-", "3" >>
    /\ \/ codec.tag = << "u" >> /\ codec.parsed = Fail(InvalidValue(<< "-", "3" >>))
       \/ codec.tag = << "i" >> /\ codec.parsed = [ result |-> Ok, value |-> SignedInt(0 - 3) ]

(***************************************************************************)
(* Claims about the transport thread (SpecTransport, SpecQuiet).           *)
(***************************************************************************)
\* The line of the wire a command stands for.
CommandLine(command) ==
    CASE command.op = "OpenValve" -> << "OPEN:", command.valve >>
      [] command.op = "CloseValve" -> << "CLOSE:", command.valve >>
      [] command.op = "Ignite" -> << "IGNITE" >>

\* C31: a write carries the queued commands in the order they were enqueued:
\* the non-empty lines of the bytes written are the dequeued commands, each
\* OPEN:<HANDLE>, CLOSE:<HANDLE> or IGNITE; and each accepted command is
\* written once: what was accepted is what was written plus what is queued.
C31_WrittenInOrderOnce ==
    /\ [][ port_write(IoOk(<< >>)) =>
             LET written == SelectSeq(split(port'.written, "\n"), LAMBDA line : line # << >>)
             IN  /\ written = [ k \in 1 .. Len(port.pending) |-> CommandLine(port.pending[k]) ]
                 /\ \A k \in 1 .. Len(written) :
                       \/ written[k] = << "IGNITE" >>
                       \/ \E h \in ValveHandle :
                            written[k] \in { << "OPEN:", h >>, << "CLOSE:", h >> }
                 /\ command_chan' = << >> ]_vars
    /\ [](port.pc # "panicked" =>
             /\ Len(port.pending) = Len(command_chan)
             /\ port.accepted = port.delivered + Len(command_chan))

\* One write carried two commands of different kinds.
C31_Witness ==
    /\ port.pc = "send_fields"
    /\ port.written = << "\n", "\n", "OPEN:", "NP1", "\n", "\n", "\n", "IGNITE", "\n", "\n" >>
    /\ port.delivered = 2

\* A step of FieldSender::send_fields.
ReadStep == \E answer \in ReadAnswers : port_read(answer)

\* C33: a call of read_fields makes at most 17 attempts; it goes on to another
\* attempt only after a timeout; an error of another kind, and the 17th
\* timeout in a row, is returned as the read error at once; the first success
\* is decoded behind the remainder the call was given, which the attempts
\* before it left alone.
C33_BoundedReadRetry ==
    [][ ReadStep =>
          LET answer == port'.answer
              again == port'.pc = "send_fields"
              timeout == answer.result = Err /\ answer.kind = TimedOut
          IN  /\ port.i + 1 <= 17
              /\ again => /\ timeout
                          /\ port.i + 1 < 17
                          /\ port'.i = port.i + 1
                          /\ port'.remainder = port.remainder
                          /\ read_chan' = read_chan
              /\ (answer.result = Err /\ ~timeout) =>
                    /\ port'.pc = "panicked"
                    /\ port'.returned.result = Err
                    /\ port'.returned.kind = answer.kind
              /\ (timeout /\ port.i + 1 = 17) =>
                    /\ port'.pc = "panicked"
                    /\ port'.returned.result = Err
                    /\ port'.returned.kind = TimedOut
              /\ answer.result = Ok =>
                    /\ port'.pc = "send_commands"
                    /\ port'.returned.result = Ok
                    /\ port'.i = port.i
                    /\ (port.remainder = HalfLine /\ answer.chunk = RestOfLine) =>
                          /\ read_chan' = Append(read_chan,
                                                 SensorField("NP1_OPEN", Boolean(TRUE)))
                          /\ port'.remainder = << >> ]_vars

\* The second half of a line arrives at the 17th attempt and completes the
\* half that was carried through sixteen timeouts.
C33_Witness ==
    /\ port.pc = "send_commands"
    /\ port.returned.result = Ok
    /\ port.i + 1 = 17
    /\ port.answer.chunk = RestOfLine
    /\ port.returned.fields = << SensorField("NP1_OPEN", Boolean(TRUE)) >>

\* C34: a read whose bytes are not valid UTF-8 returns no error, yields no
\* field, not even from the well-formed lines of the chunk, and leaves the
\* carried remainder as it was.
C34_InvalidUtf8Policy ==
    [][ (\E chunk \in InvalidChunks : port_read(IoOk(chunk))) =>
          /\ port'.pc = "send_commands"
          /\ port'.returned.result = Ok
          /\ port'.returned.fields = << >>
          /\ read_chan' = read_chan
          /\ port'.remainder = port.remainder ]_vars

\* A well-formed line and a stray byte were read while half a line was carried.
C34_Witness ==
    /\ port.pc = "send_commands"
    /\ port.answer.chunk = LineAndStrayByte
    /\ port.returned.result = Ok
    /\ port.remainder = HalfLine

\* C38: with the transport thread scheduled fairly and no hard I/O error, every
\* accepted command is eventually written, also when every read times out.
C38_AcceptedEventuallyWritten ==
    \A n \in 1 .. MaxAccepted : (port.accepted >= n) ~> (port.delivered >= n)

====
